---------------------------- MODULE Spec2Model ----------------------------
(***************************************************************************)
(* A model of the MySQL service of the no-code database generator          *)
(* (src/backend/src/services/mysql.service.ts): the five exported          *)
(* operations, the DDL generator, and the MySQL server they talk to.       *)
(*                                                                         *)
(* Text is modelled as a sequence of one-character strings, so that the    *)
(* identifier sanitizer, toUpperCase, trim and quote doubling are computed *)
(* character by character as the code computes them.                       *)
(*                                                                         *)
(* The server is modelled with case-sensitive table names (the default on  *)
(* Linux); views, triggers and row data are not modelled.                  *)
(***************************************************************************)
EXTENDS Integers, Sequences, FiniteSets, TLC

(***************************************************************************)
(* Bounds of the model.                                                    *)
(***************************************************************************)
\* The longest document: number of tables handed to one pass.
MaxTables == 2
\* The longest relationship list handed to one pass.
MaxRels == 2

(***************************************************************************)
(* Text helpers.                                                           *)
(***************************************************************************)
Lower == <<"a","b","c","d","e","f","g","h","i","j","k","l","m",
           "n","o","p","q","r","s","t","u","v","w","x","y","z">>
Upper == <<"A","B","C","D","E","F","G","H","I","J","K","L","M",
           "N","O","P","Q","R","S","T","U","V","W","X","Y","Z">>
Digits == {"0","1","2","3","4","5","6","7","8","9"}

Range(s) == {s[k] : k \in DOMAIN s}

\* The character class [a-zA-Z0-9_] of the sanitizer's regular expression.
SafeChars == Range(Lower) \cup Range(Upper) \cup Digits \cup {"_"}

\* A mutant of Sanitize: the regular expression has no g flag, and only the
\* first character outside the class is replaced.
SanitizeFirst(s) ==
    [k \in 1..Len(s) |->
        IF s[k] \in SafeChars \/ \E j \in 1..(k - 1) : s[j] \notin SafeChars
        THEN s[k] ELSE "_"]

\* name.replace(/[^a-zA-Z0-9_]/g, '_')
Sanitize(s) == [k \in 1..Len(s) |-> IF s[k] \in SafeChars THEN s[k] ELSE "_"]

\* String.prototype.toUpperCase on the ASCII letters.
ToUpperChar(c) ==
    IF c \in Range(Lower) THEN Upper[CHOOSE k \in DOMAIN Lower : Lower[k] = c] ELSE c
ToUpperCase(s) == [k \in 1..Len(s) |-> ToUpperChar(s[k])]

\* String.prototype.trim: leading and trailing blanks removed.
RECURSIVE TrimStart(_)
TrimStart(s) == IF s # <<>> /\ Head(s) = " " THEN TrimStart(Tail(s)) ELSE s
RECURSIVE TrimEnd(_)
TrimEnd(s) ==
    IF s # <<>> /\ s[Len(s)] = " " THEN TrimEnd(SubSeq(s, 1, Len(s) - 1)) ELSE s
Trim(s) == TrimEnd(TrimStart(s))

\* A mutant of Includes: startsWith for includes.
StartsWith(s, sub) == Len(sub) <= Len(s) /\ SubSeq(s, 1, Len(sub)) = sub

\* String.prototype.includes
Includes(s, sub) ==
    \E k \in 0..(Len(s) - Len(sub)) : SubSeq(s, k + 1, k + Len(sub)) = sub

\* A mutant of DoubleQuotes: the quotes of the value are left as they are.
QuotesLeft(s) == s

\* defaultValue.replace(/'/g, "''")
RECURSIVE DoubleQuotes(_)
DoubleQuotes(s) ==
    IF s = <<>> THEN <<>>
    ELSE (IF Head(s) = "'" THEN <<"'", "'">> ELSE <<Head(s)>>) \o DoubleQuotes(Tail(s))

\* Array.prototype.find on ids: the first element with that id, or none.
HasId(seq, id) == \E k \in DOMAIN seq : seq[k].id = id
FindById(seq, id) ==
    seq[CHOOSE k \in DOMAIN seq :
            seq[k].id = id /\ \A j \in 1..(k - 1) : seq[j].id # id]

\* The sequences without repetition over a set, up to a length.
RECURSIVE InjSeqs(_, _)
InjSeqs(S, n) ==
    IF n = 0 THEN {<<>>}
    ELSE LET shorter == InjSeqs(S, n - 1)
         IN  shorter \cup
             {Append(p[1], p[2]) :
                 p \in {q \in shorter \X S :
                           Len(q[1]) = n - 1 /\ q[2] \notin Range(q[1])}}

(***************************************************************************)
(* The schema document: the tables, columns and relationships a caller     *)
(* hands to the service.  A table's position on the canvas plays no part   *)
(* in the service and is left out.  An optional boolean that is absent is  *)
(* FALSE (both are falsy); an optional text has a flag that says whether   *)
(* it is present.                                                          *)
(***************************************************************************)
INT == <<"I","N","T">>
VARCHAR == <<"V","A","R","C","H","A","R","(","9",")">>

Column(id, name, type, pk, nullable, unique, ai, hasDefault, default) ==
    [id |-> id, name |-> name, type |-> type, isPrimaryKey |-> pk,
     isNullable |-> nullable, isUnique |-> unique, isAutoIncrement |-> ai,
     hasDefault |-> hasDefault, defaultValue |-> default,
     checkConstraint |-> <<>>]

ColId    == Column("c1", <<"i","d">>, INT, TRUE, FALSE, FALSE, TRUE, FALSE, <<>>)
ColUid   == Column("c2", <<"u","-","i","d">>, INT, FALSE, TRUE, FALSE, FALSE, FALSE, <<>>)
ColEmail == Column("c1", <<"e","@">>, VARCHAR, FALSE, FALSE, TRUE, FALSE, TRUE, <<"x">>)

Table(id, name, columns) == [id |-> id, name |-> name, columns |-> columns]

\* Two of the names sanitize to the same identifier, a_.
TablePool ==
    { Table("t1", <<"a","$">>, <<ColId, ColUid>>),
      Table("t2", <<"a","_">>, <<ColEmail>>),
      Table("t3", <<"b">>, <<ColId, ColUid>>),
      Table("t4", <<"e">>, <<>>) }

Relationship(id, st, sc, tt, tc, onDelete, onUpdate) ==
    [id |-> id, sourceTableId |-> st, sourceColumnId |-> sc,
     targetTableId |-> tt, targetColumnId |-> tc,
     onDelete |-> onDelete, onUpdate |-> onUpdate]

\* "" stands for an action left unspecified.  r1 and r2 leave the same
\* column of the same table; r3 names a column that no table has.
RelPool ==
    { Relationship("r1", "t3", "c2", "t1", "c1", "", ""),
      Relationship("r2", "t3", "c2", "t3", "c1", "SET NULL", "RESTRICT"),
      Relationship("r3", "t3", "c9", "t1", "c1", "", "") }

Documents == InjSeqs(TablePool, MaxTables)
RelationshipLists == InjSeqs(RelPool, MaxRels)

(***************************************************************************)
(* The DDL generator.  A statement is kept as its parts, in the order in   *)
(* which the text has them, instead of as one text.                        *)
(***************************************************************************)
PlaceholderName == <<"_","p","l","a","c","e","h","o","l","d","e","r">>

\* A mutant of HasDefaultClause: the clause is left out only where
\* AUTO_INCREMENT is emitted.
HasDefaultClauseUnlessEmitted(col) ==
    /\ col.hasDefault /\ col.defaultValue # <<>>
    /\ ~(col.isAutoIncrement /\ Includes(ToUpperCase(col.type), INT))

\* col.defaultValue && !col.isAutoIncrement: an absent and an empty default
\* value are both falsy.
HasDefaultClause(col) ==
    col.hasDefault /\ col.defaultValue # <<>> /\ ~col.isAutoIncrement

\* The DEFAULT clause of a column definition: kw "" when no clause is
\* emitted, otherwise the keyword text after DEFAULT, or "'" with the quoted text.
DefaultClause(col) ==
    IF HasDefaultClause(col)
    THEN LET upperDefault == Trim(ToUpperCase(col.defaultValue))
         IN  IF upperDefault = <<"N","U","L","L">>
             THEN [kw |-> "NULL", text |-> <<>>]
             ELSE IF upperDefault = <<"C","U","R","R","E","N","T","_","T","I","M","E","S","T","A","M","P">>
             THEN [kw |-> "CURRENT_TIMESTAMP", text |-> <<>>]
             ELSE IF upperDefault = <<"C","U","R","R","E","N","T","_","D","A","T","E">>
             THEN [kw |-> "(CURRENT_DATE)", text |-> <<>>]
             ELSE [kw |-> "'", text |-> DoubleQuotes(col.defaultValue)]
    ELSE [kw |-> "", text |-> <<>>]

\* One column definition: `name` type [NOT NULL] [AUTO_INCREMENT] [DEFAULT ..] [UNIQUE]
ColumnDef(col) ==
    [name |-> Sanitize(col.name),
     type |-> col.type,
     notNull |-> ~col.isNullable,
     autoIncrement |-> col.isAutoIncrement /\ Includes(ToUpperCase(col.type), INT),
     default |-> DefaultClause(col),
     unique |-> col.isUnique /\ ~col.isPrimaryKey]

\* The table-level constraints a column contributes, in order.
ColumnConstraints(safeName, col) ==
    (IF col.isPrimaryKey
     THEN << [kind |-> "PRIMARY KEY", column |-> Sanitize(col.name),
              name |-> <<>>, expr |-> <<>>] >>
     ELSE <<>>)
    \o
    (IF col.checkConstraint # <<>>
     THEN << [kind |-> "CHECK", column |-> Sanitize(col.name),
              name |-> <<"c","h","k","_">> \o safeName \o <<"_">> \o Sanitize(col.name),
              expr |-> col.checkConstraint] >>
     ELSE <<>>)

RECURSIVE AllConstraints(_, _)
AllConstraints(safeName, columns) ==
    IF columns = <<>> THEN <<>>
    ELSE ColumnConstraints(safeName, Head(columns))
         \o AllConstraints(safeName, Tail(columns))

\* A mutant of generateCreateTableSQL: the branch for a table without
\* columns is gone.
generateCreateTableSQLNoPlaceholder(table) ==
    [op |-> "CREATE", table |-> Sanitize(table.name),
     columnDefs |-> [k \in 1..Len(table.columns) |-> ColumnDef(table.columns[k])],
     constraints |-> AllConstraints(Sanitize(table.name), table.columns)]

\* CREATE TABLE IF NOT EXISTS `safeName` (columnDefs, constraints) ENGINE=InnoDB ...
generateCreateTableSQL(table) ==
    LET safeName == Sanitize(table.name)
    IN  IF Len(table.columns) = 0
        THEN [op |-> "CREATE", table |-> safeName,
              columnDefs |-> << [name |-> PlaceholderName, type |-> INT,
                                 notNull |-> FALSE, autoIncrement |-> FALSE,
                                 default |-> [kw |-> "", text |-> <<>>],
                                 unique |-> FALSE] >>,
              constraints |-> <<>>]
        ELSE [op |-> "CREATE", table |-> safeName,
              columnDefs |-> [k \in 1..Len(table.columns) |->
                                 ColumnDef(table.columns[k])],
              constraints |-> AllConstraints(safeName, table.columns)]

(***************************************************************************)
(* The relationship phase's resolution and its ALTER statement.            *)
(***************************************************************************)
\* Both tables and both columns of the relationship are found by id.
Resolves(tbls, rel) ==
    /\ HasId(tbls, rel.sourceTableId)
    /\ HasId(tbls, rel.targetTableId)
    /\ HasId(FindById(tbls, rel.sourceTableId).columns, rel.sourceColumnId)
    /\ HasId(FindById(tbls, rel.targetTableId).columns, rel.targetColumnId)

\* A mutant of OrCascade: an action left unspecified is left to the server's
\* default, NO ACTION.
OrNoAction(action) == IF action = "" THEN "NO ACTION" ELSE action

\* rel.onDelete || 'CASCADE'
OrCascade(action) == IF action = "" THEN "CASCADE" ELSE action

\* A mutant of AlterSQL: the constraint's name also carries the target
\* table.
AlterSQLNamedWithTarget(tbls, rel) ==
    LET sourceTable == FindById(tbls, rel.sourceTableId)
        targetTable == FindById(tbls, rel.targetTableId)
        sourceColumn == FindById(sourceTable.columns, rel.sourceColumnId)
        targetColumn == FindById(targetTable.columns, rel.targetColumnId)
        safeSourceTable == Sanitize(sourceTable.name)
        safeSourceColumn == Sanitize(sourceColumn.name)
    IN  [op |-> "ALTER",
         table |-> safeSourceTable,
         constraint |-> <<"f","k","_">> \o safeSourceTable \o <<"_">> \o safeSourceColumn
                           \o <<"_">> \o Sanitize(targetTable.name),
         column |-> safeSourceColumn,
         refTable |-> Sanitize(targetTable.name),
         refColumn |-> Sanitize(targetColumn.name),
         onDelete |-> OrCascade(rel.onDelete),
         onUpdate |-> OrCascade(rel.onUpdate)]

\* ALTER TABLE `src` ADD CONSTRAINT `fk_src_col` FOREIGN KEY (`col`)
\* REFERENCES `tgt`(`tcol`) ON DELETE .. ON UPDATE ..
AlterSQL(tbls, rel) ==
    LET sourceTable == FindById(tbls, rel.sourceTableId)
        targetTable == FindById(tbls, rel.targetTableId)
        sourceColumn == FindById(sourceTable.columns, rel.sourceColumnId)
        targetColumn == FindById(targetTable.columns, rel.targetColumnId)
        safeSourceTable == Sanitize(sourceTable.name)
        safeSourceColumn == Sanitize(sourceColumn.name)
    IN  [op |-> "ALTER",
         table |-> safeSourceTable,
         constraint |-> <<"f","k","_">> \o safeSourceTable \o <<"_">> \o safeSourceColumn,
         column |-> safeSourceColumn,
         refTable |-> Sanitize(targetTable.name),
         refColumn |-> Sanitize(targetColumn.name),
         onDelete |-> OrCascade(rel.onDelete),
         onUpdate |-> OrCascade(rel.onUpdate)]

(***************************************************************************)
(* The MySQL server: the tables of the target database (name -> columns),  *)
(* its foreign keys, and what each statement does to them.                 *)
(***************************************************************************)
\* A function with one name removed from, or one value set in, its domain.
Without(f, n) == [x \in (DOMAIN f) \ {n} |-> f[x]]
With(f, n, v) == [x \in (DOMAIN f) \cup {n} |-> IF x = n THEN v ELSE f[x]]

\* The columns a CREATE statement gives the table: name and type, in order.
LiveColumns(stmt) ==
    [k \in 1..Len(stmt.columnDefs) |->
        [name |-> stmt.columnDefs[k].name, type |-> stmt.columnDefs[k].type]]

\* The server refuses a CREATE TABLE with no column, with two columns of
\* one name, or with more than one PRIMARY KEY clause.
CreateRefused(stmt) ==
    \/ stmt.columnDefs = <<>>
    \/ \E j, k \in DOMAIN stmt.columnDefs :
          j # k /\ stmt.columnDefs[j].name = stmt.columnDefs[k].name
    \/ Cardinality({k \in DOMAIN stmt.constraints :
                       stmt.constraints[k].kind = "PRIMARY KEY"}) > 1

\* CREATE TABLE IF NOT EXISTS: a table that is already live is left as it is.
ApplyCreate(tbls, stmt) ==
    IF stmt.table \in DOMAIN tbls THEN tbls
    ELSE With(tbls, stmt.table, LiveColumns(stmt))

\* DROP TABLE IF EXISTS: the table goes, and the foreign keys it carries.
ApplyDropTables(tbls, n) == Without(tbls, n)
ApplyDropFks(fks, n) == {f \in fks : f.table # n}

\* The server refuses ADD CONSTRAINT when the table or the column is not
\* there, or when the database already has a foreign key of that name.
AlterRefused(tbls, fks, stmt) ==
    \/ stmt.table \notin DOMAIN tbls
    \/ \A k \in DOMAIN tbls[stmt.table] : tbls[stmt.table][k].name # stmt.column
    \/ \E f \in fks : f.name = stmt.constraint

ApplyAlter(fks, stmt) ==
    fks \cup { [name |-> stmt.constraint, table |-> stmt.table,
                column |-> stmt.column, refTable |-> stmt.refTable,
                refColumn |-> stmt.refColumn, onDelete |-> stmt.onDelete,
                onUpdate |-> stmt.onUpdate] }

(***************************************************************************)
(* The state: one call of one exported operation, the connection it opens, *)
(* and the server it talks to.                                             *)
(***************************************************************************)
VARIABLES
    op,             \* the exported operation this call runs
    tables,         \* syncSchemaToMySQL's tables argument
    relationships,  \* syncSchemaToMySQL's relationships argument
    databaseName,   \* the databaseName argument
    pc,             \* the statement the call is about to run
    i,              \* the index of the loop the call is in (1-based)
    conn,           \* the connection: "none", "open", "lost" or "closed"
    fkChecks,       \* the session's FOREIGN_KEY_CHECKS setting
    existingTables, \* the inventory SHOW TABLES returned
    details,        \* syncSchemaToMySQL's details array
    result,         \* the value the call returned
    escaped,        \* an exception left the call instead of a result
    log,            \* every statement the call issued, in order, with its outcome
    dbTables,       \* server: the tables of the target database, name -> columns
    dbFks,          \* server: the foreign keys of the target database
    databases,      \* server: the names of its databases
    db0,            \* history: the target database as the call found it
    pass,           \* history: 1 in a first call, 2 in the call that repeats it
    calls,          \* the createMySQLDatabase calls that run side by side
    arg,            \* the argument of a function applied on its own
    ret,            \* what that function returned
    project,        \* the project document of the document store
    req,            \* updateSchema: the request it serves and where it is
    responses,      \* history: the responses updateSchema has sent
    store,          \* browser: the state of the workspace store
    saveTimeout,    \* browser: the timer debouncedSave keeps
    inFlight,       \* the PUT requests saveSchema awaits
    stored,         \* document store: each project's schemaData
    uuid,           \* the identifiers uuidv4 has handed out
    hist,           \* history: the mutations and the saveSchema calls
    other           \* a second pass of syncSchemaToMySQL, waiting at an await

vars == <<op, tables, relationships, databaseName, pc, i, conn, fkChecks,
          existingTables, details, result, escaped, log, dbTables, dbFks,
          databases, db0, pass, calls, arg, ret, project, req, responses,
          store, saveTimeout, inFlight, stored, uuid, hist, other>>

\* The browser's side: the workspace store, its timer and its requests.
client == <<store, saveTimeout, inFlight, stored, uuid, hist>>

\* What lies outside the call: the controller that calls it, the browser,
\* and a second call.
aside == <<project, req, responses, client, other>>

input == <<op, tables, relationships, databaseName, db0, pass, calls, arg, ret,
           aside>>
server == <<dbTables, dbFks, databases>>

Operations == {"test", "create", "list", "exec", "sync"}

EmptyDb == [n \in {} |-> <<>>]
NotReturned == [returned |-> FALSE]

NoSchemaData == [tables |-> <<>>, relationships |-> <<>>]

\* The workspace store as create() leaves it, no timer, no request.
Projects == {"p1", "p2"}
NoProject == "null"
NoTimeout == [armed |-> FALSE, elapsed |-> 0]
EmptyStore == [projectId |-> NoProject, tables |-> <<>>, relationships |-> <<>>,
               isSaving |-> FALSE]
NoHistory == [budget |-> 0, edits |-> 0, loads |-> 0, made |-> {}, inState |-> {}, sent |-> {},
              sinceMutation |-> 0, afterMutation |-> <<>>, saves |-> <<>>]
ClientIdle ==
    /\ store = EmptyStore
    /\ saveTimeout = NoTimeout
    /\ inFlight = <<>>
    /\ stored = [p \in Projects |-> NoSchemaData]
    /\ uuid = 0
    /\ hist = NoHistory

\* No request is served and no second pass runs.
NotCalled == [called |-> FALSE]
NoPass == [pc |-> "none"]
ControllerIdle ==
    /\ project = [databaseType |-> "mysql", schemaData |-> NoSchemaData]
    /\ req = [at |-> "idle", served |-> 0, sync |-> NotCalled]
    /\ responses = <<>>
    /\ other = NoPass
AsideIdle == ControllerIdle /\ ClientIdle
NoResult == [success |-> FALSE, message |-> "(not returned)"]

Db == <<"d","b">>
OldColumns == << [name |-> <<"o">>, type |-> INT] >>
LiveNames == { <<"a","_">>, <<"z","$">> }
InitialLive == UNION { [S -> {OldColumns}] : S \in SUBSET LiveNames }
OldFk == [name |-> <<"f","k","_","b","_","u","_","i","d">>, table |-> <<"z","$">>,
          column |-> <<"o">>, refTable |-> <<"a","_">>, refColumn |-> <<"o">>,
          onDelete |-> "CASCADE", onUpdate |-> "CASCADE"]
InitialFks(live) == IF <<"z","$">> \in DOMAIN live THEN {{}, {OldFk}} ELSE {{}}

Init ==
    /\ op \in Operations
    /\ pc = "connect"
    /\ i = 1
    /\ conn = "none"
    /\ fkChecks = TRUE
    /\ existingTables = <<>>
    /\ details = <<>>
    /\ result = NoResult
    /\ escaped = FALSE
    /\ log = <<>>
    /\ IF op = "sync"
       THEN /\ tables \in Documents
            /\ relationships \in RelationshipLists
            /\ dbTables \in InitialLive
            /\ dbFks \in InitialFks(dbTables)
       ELSE /\ tables = <<>>
            /\ relationships = <<>>
            /\ dbTables = EmptyDb
            /\ dbFks = {}
    /\ db0 = [tables |-> dbTables, fks |-> dbFks]
    /\ pass = 1
    /\ AsideIdle
    /\ calls = <<>>
    /\ arg = <<>>
    /\ ret = NotReturned
    /\ IF op = "create"
       THEN /\ databaseName \in { Db, <<"d","-">> }
            /\ databases \in SUBSET { Db, <<"d","_">> }
       ELSE /\ databaseName = Db
            /\ databases = {Db}

(***************************************************************************)
(* Statements, outcomes and exceptions.                                    *)
(***************************************************************************)
\* A statement on an open connection succeeds, fails with an error that
\* leaves the connection open, or fails because the connection is lost; on
\* a lost connection every statement fails.
Outcomes == IF conn = "open" THEN {"ok", "error", "lost"} ELSE {"lost"}
ConnAfter(out) == IF out = "lost" THEN "lost" ELSE conn

Logged(stmt, phase, idx, out) ==
    log' = Append(log, [stmt |-> stmt, phase |-> phase, idx |-> idx,
                        outcome |-> out])

\* A mutant of TrySteps: connection.end() is awaited after the try block.
TryStepsEndOutside(o) ==
    CASE o = "test"   -> {"connect", "ping"}
      [] o = "create" -> {"connect", "checkExists", "createDb"}
      [] o = "list"   -> {"connect", "showDbs"}
      [] o = "exec"   -> {"connect", "query"}
      [] o = "sync"   -> {"connect", "disable", "inventory", "prune",
                          "recreate", "create", "wire", "enable"}

\* The steps of each operation that its try block encloses.
TrySteps(o) ==
    CASE o = "test"   -> {"connect", "ping", "end"}
      [] o = "create" -> {"connect", "checkExists", "endExists", "createDb", "end"}
      [] o = "list"   -> {"connect", "showDbs", "end"}
      [] o = "exec"   -> {"connect", "query", "end"}
      [] o = "sync"   -> {"connect", "disable", "inventory", "prune",
                          "recreate", "create", "wire", "enable", "end"}

\* A mutant of CatchResult: the catch block reports success.
CatchResultSuccess(o) ==
    IF o = "sync"
    THEN [success |-> TRUE, message |-> "MySQL sync failed: driver error",
          details |-> details]
    ELSE [success |-> TRUE, message |-> "driver error"]

\* What the catch block of an operation returns.
CatchResult(o) ==
    IF o = "sync"
    THEN [success |-> FALSE, message |-> "MySQL sync failed: driver error",
          details |-> details]
    ELSE [success |-> FALSE, message |-> "driver error"]

\* Step s of the call throws: the catch block returns, or the exception escapes.
Throw(s) ==
    /\ pc' = "done"
    /\ IF s \in TrySteps(op)
       THEN result' = CatchResult(op) /\ escaped' = FALSE
       ELSE result' = result /\ escaped' = TRUE

\* mysql.createConnection: the connection opens, or the call throws.
Connect(next) ==
    /\ pc = "connect"
    /\ \E out \in {"ok", "error"} :
          /\ Logged([op |-> "CONNECT"], "connect", 0, out)
          /\ IF out = "ok"
             THEN /\ conn' = "open"
                  /\ pc' = next
                  /\ UNCHANGED <<result, escaped>>
             ELSE /\ conn' = conn
                  /\ Throw("connect")
    /\ fkChecks' = TRUE
    /\ UNCHANGED <<input, server, i, existingTables, details>>

\* connection.end() as step s, after which the call returns res.
End(s, res) ==
    /\ pc = s
    /\ \E out \in Outcomes :
          /\ Logged([op |-> "END"], s, 0, out)
          /\ IF out = "ok"
             THEN /\ conn' = "closed"
                  /\ pc' = "done"
                  /\ result' = res
                  /\ escaped' = escaped
             ELSE /\ conn' = ConnAfter(out)
                  /\ Throw(s)
    /\ UNCHANGED <<input, server, i, fkChecks, existingTables, details>>

\* A statement that reads only, as step s; the call goes on at next.
ReadOnly(s, stmt, next) ==
    /\ pc = s
    /\ \E out \in Outcomes :
          /\ Logged(stmt, s, 0, out)
          /\ conn' = ConnAfter(out)
          /\ IF out = "ok"
             THEN pc' = next /\ UNCHANGED <<result, escaped>>
             ELSE Throw(s)
    /\ UNCHANGED <<input, server, i, fkChecks, existingTables, details>>

(***************************************************************************)
(* testMySQLConnection                                                     *)
(***************************************************************************)
TestConnect == op = "test" /\ Connect("ping")
TestPing == op = "test" /\ ReadOnly("ping", [op |-> "PING"], "end")
TestEnd ==
    /\ op = "test"
    /\ End("end", [success |-> TRUE, message |-> "Connection successful"])

(***************************************************************************)
(* createMySQLDatabase                                                     *)
(***************************************************************************)
CreateConnect == op = "create" /\ Connect("checkExists")

\* SELECT SCHEMA_NAME FROM INFORMATION_SCHEMA.SCHEMATA WHERE SCHEMA_NAME = ?
CreateCheckExists ==
    /\ op = "create"
    /\ ReadOnly("checkExists",
                [op |-> "SELECT SCHEMA", name |-> Sanitize(databaseName)],
                IF Sanitize(databaseName) \in databases
                THEN "endExists" ELSE "createDb")

CreateEndExists ==
    /\ op = "create"
    /\ End("endExists", [success |-> FALSE, message |-> "already exists"])

\* CREATE DATABASE `safeName`: refused when the database is there.
CreateDatabase ==
    /\ op = "create"
    /\ pc = "createDb"
    /\ LET safeName == Sanitize(databaseName)
       IN  \E out \in (IF safeName \in databases
                       THEN Outcomes \ {"ok"} ELSE Outcomes) :
              /\ Logged([op |-> "CREATE DATABASE", name |-> safeName],
                        "createDb", 0, out)
              /\ conn' = ConnAfter(out)
              /\ IF out = "ok"
                 THEN /\ databases' = databases \cup {safeName}
                      /\ pc' = "end"
                      /\ UNCHANGED <<result, escaped>>
                 ELSE /\ databases' = databases
                      /\ Throw("createDb")
    /\ UNCHANGED <<input, dbTables, dbFks, i, fkChecks, existingTables, details>>

CreateEnd ==
    /\ op = "create"
    /\ End("end", [success |-> TRUE, message |-> "created successfully"])

(***************************************************************************)
(* listMySQLDatabases                                                      *)
(***************************************************************************)
ListConnect == op = "list" /\ Connect("showDbs")
ListShow == op = "list" /\ ReadOnly("showDbs", [op |-> "SHOW DATABASES"], "end")
ListEnd ==
    /\ op = "list"
    /\ End("end", [success |-> TRUE, databases |-> databases])

(***************************************************************************)
(* executeMySQLQuery, for a query that reads.                              *)
(***************************************************************************)
ExecConnect == op = "exec" /\ Connect("query")
ExecQuery == op = "exec" /\ ReadOnly("query", [op |-> "QUERY"], "end")
ExecEnd ==
    /\ op = "exec"
    /\ End("end", [success |-> TRUE, result |-> "rows"])

(***************************************************************************)
(* syncSchemaToMySQL                                                       *)
(***************************************************************************)
\* The lines of details.
DroppedLine(t) == [kind |-> "Dropped table", table |-> t]
RecreatingLine(t) == [kind |-> "Recreating table", table |-> t]
CreatedLine(t, n) == [kind |-> "Created table", table |-> t, columns |-> n]
AddedFkLine(stmt) ==
    [kind |-> "Added FK", table |-> stmt.table, column |-> stmt.column,
     refTable |-> stmt.refTable, refColumn |-> stmt.refColumn]
FkFailedLine(stmt) ==
    [kind |-> "FK failed", table |-> stmt.table, column |-> stmt.column,
     message |-> "driver error"]

\* A mutant of Push: the line is put in front (unshift for push).
PushFront(d, line) == <<line>> \o d

\* details.push(line)
Push(d, line) == Append(d, line)

\* A mutant of SchemaTableNames: the names are compared unsanitized.
SchemaTableNamesRaw(tbls) == [k \in 1..Len(tbls) |-> tbls[k].name]

\* tables.map(t => t.name.replace(/[^a-zA-Z0-9_]/g, '_'))
SchemaTableNames(tbls) == [k \in 1..Len(tbls) |-> Sanitize(tbls[k].name)]

\* A mutant of PhaseAfter: the relationships are wired before the tables
\* are materialized.
PhaseAfterWireFirst(phase) ==
    CASE phase = "connect"     -> "disable"
      [] phase = "disable"     -> "inventory"
      [] phase = "inventory"   -> "prune"
      [] phase = "prune"       -> "wire"
      [] phase = "wire"        -> "materialize"
      [] phase = "materialize" -> "enable"
      [] phase = "enable"      -> "end"

\* A mutant of PhaseAfter: the pass goes from the connection straight to
\* SHOW TABLES, without SET FOREIGN_KEY_CHECKS = 0.
PhaseAfterNoDisable(phase) ==
    CASE phase = "connect"     -> "inventory"
      [] phase = "disable"     -> "inventory"
      [] phase = "inventory"   -> "prune"
      [] phase = "prune"       -> "materialize"
      [] phase = "materialize" -> "wire"
      [] phase = "wire"        -> "enable"
      [] phase = "enable"      -> "end"

\* A mutant of PhaseAfter: the pass goes from SHOW TABLES straight to the
\* document's tables, without the prune loop.
PhaseAfterNoPrune(phase) ==
    CASE phase = "connect"     -> "disable"
      [] phase = "disable"     -> "inventory"
      [] phase = "inventory"   -> "materialize"
      [] phase = "prune"       -> "materialize"
      [] phase = "materialize" -> "wire"
      [] phase = "wire"        -> "enable"
      [] phase = "enable"      -> "end"

\* The order of the phases of a pass.
PhaseAfter(phase) ==
    CASE phase = "connect"     -> "disable"
      [] phase = "disable"     -> "inventory"
      [] phase = "inventory"   -> "prune"
      [] phase = "prune"       -> "materialize"
      [] phase = "materialize" -> "wire"
      [] phase = "wire"        -> "enable"
      [] phase = "enable"      -> "end"

\* A mutant of InnerTrySteps: the ALTER is not in a try block of its own.
InnerTryStepsNone == {}

\* The steps inside the relationship loop's own try block.
InnerTrySteps == {"wire"}

\* A mutant of SkipLines: a relationship that does not resolve is recorded
\* as a failure.
SkipLinesRecorded(rel) ==
    << [kind |-> "FK failed", table |-> <<>>, column |-> <<>>,
        message |-> "not found"] >>

\* The lines added to details for a relationship that does not resolve.
SkipLines(rel) == <<>>

\* A mutant of Inventories: SHOW TABLES also lists the tables that every
\* document of the pool would give.
InventoriesWithPool(tbls) ==
    LET names == DOMAIN tbls \cup {Sanitize(t.name) : t \in TablePool}
    IN  {q \in InjSeqs(names, Cardinality(names)) : Len(q) = Cardinality(names)}

\* The orders in which SHOW TABLES may list the tables.
Inventories(tbls) ==
    {q \in InjSeqs(DOMAIN tbls, Cardinality(DOMAIN tbls)) :
        Len(q) = Cardinality(DOMAIN tbls)}

SyncConnect == op = "sync" /\ Connect(PhaseAfter("connect"))

\* SET FOREIGN_KEY_CHECKS = 0
SyncDisableChecks ==
    /\ op = "sync"
    /\ pc = "disable"
    /\ \E out \in Outcomes :
          /\ Logged([op |-> "SET FOREIGN_KEY_CHECKS", value |-> 0], "disable", 0, out)
          /\ conn' = ConnAfter(out)
          /\ IF out = "ok"
             THEN /\ fkChecks' = FALSE
                  /\ pc' = PhaseAfter("disable")
                  /\ UNCHANGED <<result, escaped>>
             ELSE /\ fkChecks' = fkChecks
                  /\ Throw("disable")
    /\ UNCHANGED <<input, server, i, existingTables, details>>

\* SHOW TABLES
SyncInventory ==
    /\ op = "sync"
    /\ pc = "inventory"
    /\ \E out \in Outcomes :
          /\ Logged([op |-> "SHOW TABLES"], "inventory", 0, out)
          /\ conn' = ConnAfter(out)
          /\ IF out = "ok"
             THEN /\ existingTables' \in Inventories(dbTables)
                  /\ pc' = PhaseAfter("inventory")
                  /\ UNCHANGED <<result, escaped>>
             ELSE /\ existingTables' = existingTables
                  /\ Throw("inventory")
    /\ i' = 1
    /\ UNCHANGED <<input, server, fkChecks, details>>

\* One turn of the prune loop: a live table that the document has not is dropped.
SyncPrune ==
    /\ op = "sync"
    /\ pc = "prune"
    /\ i <= Len(existingTables)
    /\ LET existingTable == existingTables[i]
       IN  IF existingTable \notin Range(SchemaTableNames(tables))
           THEN \E out \in Outcomes :
                   /\ Logged([op |-> "DROP", table |-> existingTable], "prune", i, out)
                   /\ conn' = ConnAfter(out)
                   /\ IF out = "ok"
                      THEN /\ dbTables' = ApplyDropTables(dbTables, existingTable)
                           /\ dbFks' = ApplyDropFks(dbFks, existingTable)
                           /\ details' = Push(details, DroppedLine(existingTable))
                           /\ i' = i + 1
                           /\ UNCHANGED <<pc, result, escaped>>
                      ELSE /\ UNCHANGED <<dbTables, dbFks, details, i>>
                           /\ Throw("prune")
           ELSE /\ i' = i + 1
                /\ UNCHANGED <<log, conn, dbTables, dbFks, details, pc, result, escaped>>
    /\ UNCHANGED <<input, databases, fkChecks, existingTables>>

\* The end of a loop: the next phase starts.
SyncLoopDone ==
    /\ op = "sync"
    /\ \/ pc = "prune" /\ i > Len(existingTables)
       \/ pc = "materialize" /\ i > Len(tables)
       \/ pc = "wire" /\ i > Len(relationships)
    /\ pc' = PhaseAfter(pc)
    /\ i' = 1
    /\ UNCHANGED <<input, server, conn, fkChecks, existingTables, details,
                   result, escaped, log>>

\* Materialize, first half: a document table that was live is dropped.
SyncRecreate ==
    /\ op = "sync"
    /\ pc = "materialize"
    /\ i <= Len(tables)
    /\ LET safeName == Sanitize(tables[i].name)
       IN  /\ safeName \in Range(existingTables)
           /\ \E out \in Outcomes :
                 /\ Logged([op |-> "DROP", table |-> safeName], "recreate", i, out)
                 /\ conn' = ConnAfter(out)
                 /\ IF out = "ok"
                    THEN /\ dbTables' = ApplyDropTables(dbTables, safeName)
                         /\ dbFks' = ApplyDropFks(dbFks, safeName)
                         /\ details' = Push(details, RecreatingLine(safeName))
                         /\ pc' = "create"
                         /\ UNCHANGED <<result, escaped>>
                    ELSE /\ UNCHANGED <<dbTables, dbFks, details>>
                         /\ Throw("recreate")
    /\ UNCHANGED <<input, databases, i, fkChecks, existingTables>>

\* Materialize, second half: the generated CREATE TABLE is run.
SyncCreate ==
    /\ op = "sync"
    /\ i <= Len(tables)
    /\ \/ pc = "create"
       \/ pc = "materialize" /\ Sanitize(tables[i].name) \notin Range(existingTables)
    /\ LET safeName == Sanitize(tables[i].name)
           createSQL == generateCreateTableSQL(tables[i])
       IN  \E out \in (IF createSQL.table \notin DOMAIN dbTables /\ CreateRefused(createSQL)
                       THEN Outcomes \ {"ok"} ELSE Outcomes) :
              /\ Logged(createSQL, "create", i, out)
              /\ conn' = ConnAfter(out)
              /\ IF out = "ok"
                 THEN /\ dbTables' = ApplyCreate(dbTables, createSQL)
                      /\ details' = Push(details,
                                         CreatedLine(safeName, Len(tables[i].columns)))
                      /\ pc' = "materialize"
                      /\ i' = i + 1
                      /\ UNCHANGED <<result, escaped>>
                 ELSE /\ UNCHANGED <<dbTables, details, i>>
                      /\ Throw("create")
    /\ UNCHANGED <<input, dbFks, databases, fkChecks, existingTables>>

\* One turn of the relationship loop for a relationship that does not resolve.
SyncWireSkip ==
    /\ op = "sync"
    /\ pc = "wire"
    /\ i <= Len(relationships)
    /\ ~Resolves(tables, relationships[i])
    /\ details' = details \o SkipLines(relationships[i])
    /\ i' = i + 1
    /\ UNCHANGED <<input, server, pc, conn, fkChecks, existingTables, result,
                   escaped, log>>

\* One turn of the relationship loop: ALTER TABLE .. ADD CONSTRAINT.
SyncWireAlter ==
    /\ op = "sync"
    /\ pc = "wire"
    /\ i <= Len(relationships)
    /\ Resolves(tables, relationships[i])
    /\ LET alterSQL == AlterSQL(tables, relationships[i])
       IN  \E out \in (IF AlterRefused(dbTables, dbFks, alterSQL)
                       THEN Outcomes \ {"ok"} ELSE Outcomes) :
              /\ Logged(alterSQL, "wire", i, out)
              /\ conn' = ConnAfter(out)
              /\ IF out = "ok"
                 THEN /\ dbFks' = ApplyAlter(dbFks, alterSQL)
                      /\ details' = Push(details, AddedFkLine(alterSQL))
                      /\ i' = i + 1
                      /\ UNCHANGED <<pc, result, escaped>>
                 ELSE IF "wire" \in InnerTrySteps
                 THEN /\ dbFks' = dbFks
                      /\ details' = Push(details, FkFailedLine(alterSQL))
                      /\ i' = i + 1
                      /\ UNCHANGED <<pc, result, escaped>>
                 ELSE /\ UNCHANGED <<dbFks, details, i>>
                      /\ Throw("wire")
    /\ UNCHANGED <<input, dbTables, databases, fkChecks, existingTables>>

\* SET FOREIGN_KEY_CHECKS = 1
SyncEnableChecks ==
    /\ op = "sync"
    /\ pc = "enable"
    /\ \E out \in Outcomes :
          /\ Logged([op |-> "SET FOREIGN_KEY_CHECKS", value |-> 1], "enable", 0, out)
          /\ conn' = ConnAfter(out)
          /\ IF out = "ok"
             THEN /\ fkChecks' = TRUE
                  /\ pc' = PhaseAfter("enable")
                  /\ UNCHANGED <<result, escaped>>
             ELSE /\ fkChecks' = fkChecks
                  /\ Throw("enable")
    /\ UNCHANGED <<input, server, i, existingTables, details>>

SyncEnd ==
    /\ op = "sync"
    /\ End("end", [success |-> TRUE,
                   message |-> [text |-> "Synced", tables |-> Len(tables),
                                relationships |-> Len(relationships)],
                   details |-> details])

(***************************************************************************)
(* The specification.                                                      *)
(***************************************************************************)
Next ==
    \/ TestConnect \/ TestPing \/ TestEnd
    \/ CreateConnect \/ CreateCheckExists \/ CreateEndExists
    \/ CreateDatabase \/ CreateEnd
    \/ ListConnect \/ ListShow \/ ListEnd
    \/ ExecConnect \/ ExecQuery \/ ExecEnd
    \/ SyncConnect \/ SyncDisableChecks \/ SyncInventory
    \/ SyncPrune \/ SyncRecreate \/ SyncCreate
    \/ SyncWireSkip \/ SyncWireAlter \/ SyncLoopDone
    \/ SyncEnableChecks \/ SyncEnd

Spec == Init /\ [][Next]_vars

(***************************************************************************)
(* The users/posts document: users (id INT primary key auto-increment,     *)
(* email VARCHAR(255) unique not null), posts (id INT primary key          *)
(* auto-increment, user_id INT) and the relationship posts.user_id ->      *)
(* users.id with onDelete CASCADE.  The calls of Init and a call with this *)
(* document, its tables in either order, make the second specification.    *)
(***************************************************************************)
VARCHAR255 == <<"V","A","R","C","H","A","R","(","2","5","5",")">>

UsersTable ==
    Table("t5", <<"u","s","e","r","s">>,
          << Column("c1", <<"i","d">>, INT, TRUE, FALSE, FALSE, TRUE, FALSE, <<>>),
             Column("c2", <<"e","m","a","i","l">>, VARCHAR255,
                    FALSE, FALSE, TRUE, FALSE, FALSE, <<>>) >>)

PostsTable ==
    Table("t6", <<"p","o","s","t","s">>,
          << Column("c1", <<"i","d">>, INT, TRUE, FALSE, FALSE, TRUE, FALSE, <<>>),
             Column("c2", <<"u","s","e","r","_","i","d">>, INT,
                    FALSE, TRUE, FALSE, FALSE, FALSE, <<>>) >>)

PostsUserRel == Relationship("r5", "t6", "c2", "t5", "c1", "CASCADE", "")

InitUsersPosts ==
    /\ op = "sync"
    /\ pc = "connect"
    /\ i = 1
    /\ conn = "none"
    /\ fkChecks = TRUE
    /\ existingTables = <<>>
    /\ details = <<>>
    /\ result = NoResult
    /\ escaped = FALSE
    /\ log = <<>>
    /\ tables \in { <<UsersTable, PostsTable>>, <<PostsTable, UsersTable>> }
    /\ relationships = <<PostsUserRel>>
    /\ dbTables \in InitialLive
    /\ dbFks \in InitialFks(dbTables)
    /\ db0 = [tables |-> dbTables, fks |-> dbFks]
    /\ pass = 1
    /\ AsideIdle
    /\ calls = <<>>
    /\ arg = <<>>
    /\ ret = NotReturned
    /\ databaseName = Db
    /\ databases = {Db}

InitFk == Init \/ InitUsersPosts

SpecFk == InitFk /\ [][Next]_vars

(***************************************************************************)
(* A pass that is repeated: when syncSchemaToMySQL has returned success,   *)
(* the caller calls it again with the same arguments, on the database the  *)
(* first pass left.                                                        *)
(***************************************************************************)
Resync ==
    /\ op = "sync"
    /\ pc = "done"
    /\ pass = 1
    /\ ~escaped
    /\ result.success
    /\ pass' = 2
    /\ pc' = "connect"
    /\ i' = 1
    /\ conn' = "none"
    /\ fkChecks' = TRUE
    /\ existingTables' = <<>>
    /\ details' = <<>>
    /\ result' = NoResult
    /\ log' = <<>>
    /\ db0' = [tables |-> dbTables, fks |-> dbFks]
    /\ UNCHANGED <<op, tables, relationships, databaseName, server, escaped,
                   calls, arg, ret, aside>>

NextResync == Next \/ Resync

SpecResync == Init /\ [][NextResync]_vars

(***************************************************************************)
(* createMySQLDatabase called several times side by side.  Each call has   *)
(* its own connection and runs its statements in order; the server takes   *)
(* the statements of the calls one at a time, in any interleaving.  A      *)
(* statement succeeds or fails; a call's log keeps, with each statement,   *)
(* whether the database of its sanitized name existed when it was issued.  *)
(***************************************************************************)
NumCalls == 2
Callers == 1..NumCalls

DatabaseNames == { Db, <<"d","-">>, <<"d","_">> }

\* A mutant of CreateDatabaseSQL: CREATE DATABASE IF NOT EXISTS.
CreateDatabaseIfNotExists(safeName) ==
    [op |-> "CREATE DATABASE", name |-> safeName, ifNotExists |-> TRUE]

\* CREATE DATABASE `safeName`
CreateDatabaseSQL(safeName) ==
    [op |-> "CREATE DATABASE", name |-> safeName, ifNotExists |-> FALSE]

\* The server refuses to create a database that is there.
CreateDatabaseRefused(dbs, stmt) == stmt.name \in dbs /\ ~stmt.ifNotExists

InitCalls ==
    /\ op = "create"
    /\ pc = "done"
    /\ i = 1
    /\ conn = "none"
    /\ fkChecks = TRUE
    /\ existingTables = <<>>
    /\ details = <<>>
    /\ result = NoResult
    /\ escaped = FALSE
    /\ log = <<>>
    /\ tables = <<>>
    /\ relationships = <<>>
    /\ dbTables = EmptyDb
    /\ dbFks = {}
    /\ databaseName = Db
    /\ databases \in SUBSET { Db, <<"d","_">> }
    /\ db0 = [tables |-> dbTables, fks |-> dbFks, databases |-> databases]
    /\ pass = 1
    /\ AsideIdle
    /\ arg = <<>>
    /\ ret = NotReturned
    /\ calls \in [Callers -> { [name |-> n, pc |-> "connect", result |-> NoResult,
                                log |-> <<>>] : n \in DatabaseNames }]

\* Call c issues stmt with outcome out and goes on at next; a statement
\* that fails takes the call to its catch block.
CallStep(c, stmt, out, next, res) ==
    calls' = [calls EXCEPT ![c] =
                [name |-> @.name,
                 pc |-> IF out = "ok" THEN next ELSE "done",
                 result |-> IF out # "ok" THEN CatchResult("create")
                            ELSE IF next = "done" THEN res ELSE @.result,
                 log |-> Append(@.log,
                                [stmt |-> stmt, outcome |-> out,
                                 existed |-> Sanitize(@.name) \in databases])]]

CallConnect(c) ==
    /\ calls[c].pc = "connect"
    /\ \E out \in {"ok", "error"} :
          CallStep(c, [op |-> "CONNECT"], out, "checkExists", NoResult)
    /\ UNCHANGED <<op, tables, relationships, databaseName, db0, pass, arg, ret, aside, server,
                   pc, i, conn, fkChecks, existingTables, details, result,
                   escaped, log>>

CallCheckExists(c) ==
    /\ calls[c].pc = "checkExists"
    /\ LET safeName == Sanitize(calls[c].name)
       IN  \E out \in {"ok", "error"} :
              CallStep(c, [op |-> "SELECT SCHEMA", name |-> safeName], out,
                       IF safeName \in databases THEN "endExists" ELSE "createDb",
                       NoResult)
    /\ UNCHANGED <<op, tables, relationships, databaseName, db0, pass, arg, ret, aside, server,
                   pc, i, conn, fkChecks, existingTables, details, result,
                   escaped, log>>

CallEndExists(c) ==
    /\ calls[c].pc = "endExists"
    /\ \E out \in {"ok", "error"} :
          CallStep(c, [op |-> "END"], out, "done",
                   [success |-> FALSE, message |-> "already exists"])
    /\ UNCHANGED <<op, tables, relationships, databaseName, db0, pass, arg, ret, aside, server,
                   pc, i, conn, fkChecks, existingTables, details, result,
                   escaped, log>>

CallCreateDatabase(c) ==
    /\ calls[c].pc = "createDb"
    /\ LET stmt == CreateDatabaseSQL(Sanitize(calls[c].name))
       IN  \E out \in (IF CreateDatabaseRefused(databases, stmt)
                       THEN {"error"} ELSE {"ok", "error"}) :
              /\ CallStep(c, stmt, out, "end", NoResult)
              /\ databases' = IF out = "ok" THEN databases \cup {stmt.name}
                              ELSE databases
    /\ UNCHANGED <<op, tables, relationships, databaseName, db0, pass, arg, ret, aside, dbTables,
                   dbFks, pc, i, conn, fkChecks, existingTables, details, result,
                   escaped, log>>

CallEnd(c) ==
    /\ calls[c].pc = "end"
    /\ \E out \in {"ok", "error"} :
          CallStep(c, [op |-> "END"], out, "done",
                   [success |-> TRUE, message |-> "created successfully"])
    /\ UNCHANGED <<op, tables, relationships, databaseName, db0, pass, arg, ret, aside, server,
                   pc, i, conn, fkChecks, existingTables, details, result,
                   escaped, log>>

NextCalls ==
    \/ \E c \in Callers : CallConnect(c)
    \/ \E c \in Callers : CallCheckExists(c)
    \/ \E c \in Callers : CallEndExists(c)
    \/ \E c \in Callers : CallCreateDatabase(c)
    \/ \E c \in Callers : CallEnd(c)

SpecCalls == InitCalls /\ [][NextCalls]_vars

(***************************************************************************)
(* A function applied on its own: no call of an exported operation runs,   *)
(* the argument is drawn from a bounded set and the function is applied    *)
(* to it once.                                                             *)
(***************************************************************************)
Quiet ==
    /\ op = "none"
    /\ pc = "done"
    /\ i = 1
    /\ conn = "none"
    /\ fkChecks = TRUE
    /\ existingTables = <<>>
    /\ details = <<>>
    /\ result = NoResult
    /\ escaped = FALSE
    /\ log = <<>>
    /\ tables = <<>>
    /\ relationships = <<>>
    /\ dbTables = EmptyDb
    /\ dbFks = {}
    /\ databaseName = Db
    /\ databases = {Db}
    /\ db0 = [tables |-> dbTables, fks |-> dbFks]
    /\ pass = 1
    /\ calls = <<>>
Idle == Quiet /\ AsideIdle

Returned(value) == [returned |-> TRUE, value |-> value]

\* The sanitizer on every text of up to MaxLen characters of this alphabet.
MaxLen == 3
Alphabet == {"a", "Z", "7", "_", "-", " ", "$"}

RECURSIVE Texts(_)
Texts(n) ==
    IF n = 0 THEN {<<>>}
    ELSE Texts(n - 1) \cup
         {Append(t, c) : t \in {u \in Texts(n - 1) : Len(u) = n - 1}, c \in Alphabet}

InitSanitize == Idle /\ arg \in Texts(MaxLen) /\ ret = NotReturned

RunSanitize ==
    /\ ret = NotReturned
    /\ ret' = Returned(Sanitize(arg))
    /\ UNCHANGED <<op, tables, relationships, databaseName, db0, pass, calls, arg, aside,
                   server, pc, i, conn, fkChecks, existingTables, details,
                   result, escaped, log>>

SpecSanitize == InitSanitize /\ [][RunSanitize]_vars

(***************************************************************************)
(* generateCreateTableSQL on every table of up to MaxCols columns drawn    *)
(* from GenColumns: every combination of the auto-increment flag, three    *)
(* types and a default value that is absent, empty or 'x'; a unique        *)
(* VARCHAR(10) column for each of the other default values; and a BIGINT   *)
(* primary-key column with and without the auto-increment flag.  A         *)
(* column's id and name come from its place in the table.                  *)
(***************************************************************************)
MaxCols == 2

BIGINT == <<"B","I","G","I","N","T">>
VARCHAR10 == <<"V","A","R","C","H","A","R","(","1","0",")">>
GenTypes == { BIGINT, <<"i","n","t">>, VARCHAR10 }

OBrien == <<"O","'","B","r","i","e","n">>
GenDefaults ==
    { <<"N","U","L","L">>, <<"n","u","l","l"," ">>,
      <<"C","U","R","R","E","N","T","_","T","I","M","E","S","T","A","M","P">>,
      <<"C","U","R","R","E","N","T","_","D","A","T","E">>,
      OBrien, <<"'">> }

GenColumns ==
    { Column("c", <<"k">>, type, FALSE, TRUE, FALSE, ai, d[1], d[2]) :
         type \in GenTypes, ai \in BOOLEAN,
         d \in { <<FALSE, <<>>>>, <<TRUE, <<>>>>, <<TRUE, <<"x">>>> } }
    \cup
    { Column("c", <<"k">>, VARCHAR10, FALSE, FALSE, TRUE, FALSE, TRUE, v) :
         v \in GenDefaults }
    \cup
    { Column("c", <<"k">>, BIGINT, TRUE, FALSE, FALSE, ai, FALSE, <<>>) :
         ai \in BOOLEAN }

DigitText == <<"1", "2", "3", "4", "5", "6", "7", "8", "9">>

\* The column in place k of a table: its id is ck, its name k-k.
Placed(col, k) ==
    [col EXCEPT !.id = <<"c", DigitText[k]>>,
                !.name = <<"k", "-", DigitText[k]>>]

RECURSIVE ColumnLists(_)
ColumnLists(n) ==
    IF n = 0 THEN {<<>>}
    ELSE ColumnLists(n - 1) \cup
         {Append(l, Placed(c, n)) :
             l \in {m \in ColumnLists(n - 1) : Len(m) = n - 1}, c \in GenColumns}

GenTables == {Table("t", <<"t","-","1">>, l) : l \in ColumnLists(MaxCols)}

InitGenerate == Idle /\ arg \in GenTables /\ ret = NotReturned

RunGenerate ==
    /\ ret = NotReturned
    /\ ret' = Returned(generateCreateTableSQL(arg))
    /\ UNCHANGED <<op, tables, relationships, databaseName, db0, pass, calls, arg, aside,
                   server, pc, i, conn, fkChecks, existingTables, details,
                   result, escaped, log>>

SpecGenerate == InitGenerate /\ [][RunGenerate]_vars

(***************************************************************************)
(* updateSchema, the controller of PUT /api/projects/:id/schema, serving   *)
(* one request after the other for a project that is in the document       *)
(* store.  The pass it awaits is the pass of the actions above.  A read or *)
(* a write of the document store succeeds or throws.                       *)
(***************************************************************************)
MaxRequests == 2

UpdateBodies ==
    { [isArray |-> TRUE,
       tables |-> << Table("t3", <<"b">>, <<ColId, ColUid>>) >>,
       relationships |-> << Relationship("r2", "t3", "c2", "t3", "c1", "SET NULL", "RESTRICT"),
                            Relationship("r3", "t3", "c9", "t1", "c1", "", "") >>],
      [isArray |-> TRUE,
       tables |-> << Table("t4", <<"e">>, <<>>) >>,
       relationships |-> <<>>],
      [isArray |-> TRUE, tables |-> <<>>, relationships |-> <<>>],
      [isArray |-> FALSE, tables |-> <<>>, relationships |-> <<>>] }

InitUpdate ==
    /\ op = "sync"
    /\ pc = "done"
    /\ i = 1
    /\ conn = "none"
    /\ fkChecks = TRUE
    /\ existingTables = <<>>
    /\ details = <<>>
    /\ result = NoResult
    /\ escaped = FALSE
    /\ log = <<>>
    /\ tables = <<>>
    /\ relationships = <<>>
    /\ dbTables = EmptyDb
    /\ dbFks = {}
    /\ databaseName = Db
    /\ databases = {Db}
    /\ db0 = [tables |-> dbTables, fks |-> dbFks]
    /\ pass = 1
    /\ calls = <<>>
    /\ arg = <<>>
    /\ ret = NotReturned
    /\ project \in { [databaseType |-> t, schemaData |-> NoSchemaData] :
                        t \in {"mysql", "mongodb"} }
    /\ req = [at |-> "idle", served |-> 0, sync |-> NotCalled]
    /\ responses = <<>>
    /\ ClientIdle
    /\ other = NoPass

\* What a call of syncSchemaToMySQL changes.
passVars == <<pc, i, conn, fkChecks, existingTables, details, result, escaped,
              log, db0>>

\* res.status(..).json(..): the response is sent and the request is over.
\* With the response the history keeps the body, what the pass returned
\* and the schemaData the store holds.
Respond(status, success, message, schemaData) ==
    /\ responses' = Append(responses,
                           [status |-> status, success |-> success,
                            message |-> message,
                            body |-> [tables |-> tables,
                                      relationships |-> relationships],
                            sync |-> req.sync, schemaData |-> schemaData])
    /\ req' = [at |-> "idle", served |-> req.served + 1, sync |-> NotCalled]

\* The request arrives; a body whose tables is no array is answered 400.
UpdateReceive ==
    /\ req.at = "idle"
    /\ req.served < MaxRequests
    /\ \E body \in UpdateBodies :
          IF body.isArray
          THEN /\ tables' = body.tables
               /\ relationships' = body.relationships
               /\ req' = [req EXCEPT !.at = "find"]
               /\ UNCHANGED responses
          ELSE /\ UNCHANGED <<tables, relationships>>
               /\ Respond(400, FALSE, "Tables must be an array", project.schemaData)
    /\ UNCHANGED <<op, databaseName, pass, calls, arg, ret, project, server, client, other,
                   passVars>>

\* Project.findOne, and for a MySQL project the call of syncSchemaToMySQL.
UpdateFindProject ==
    /\ req.at = "find"
    /\ \E out \in {"ok", "error"} :
          IF out = "error"
          THEN /\ Respond(500, FALSE, "Server error while updating schema",
                          project.schemaData)
               /\ UNCHANGED passVars
          ELSE IF project.databaseType = "mysql"
          THEN /\ req' = [req EXCEPT !.at = "sync"]
               /\ pc' = "connect"
               /\ i' = 1
               /\ conn' = "none"
               /\ fkChecks' = TRUE
               /\ existingTables' = <<>>
               /\ details' = <<>>
               /\ result' = NoResult
               /\ escaped' = FALSE
               /\ log' = <<>>
               /\ db0' = [tables |-> dbTables, fks |-> dbFks]
               /\ UNCHANGED responses
          ELSE /\ req' = [req EXCEPT !.at = "save"]
               /\ UNCHANGED <<passVars, responses>>
    /\ UNCHANGED <<op, tables, relationships, databaseName, pass, calls, arg, ret,
                   client, other, project, server>>

\* syncSchemaToMySQL has returned: its result is logged, and nothing else.
UpdateSyncReturned ==
    /\ req.at = "sync"
    /\ pc = "done"
    /\ IF escaped
       THEN Respond(500, FALSE, "Server error while updating schema",
                    project.schemaData)
       ELSE /\ req' = [req EXCEPT !.at = "save", !.sync = result]
            /\ UNCHANGED responses
    /\ UNCHANGED <<op, tables, relationships, databaseName, pass, calls, arg, ret,
                   client, other, project, server, passVars>>

\* A mutant of SchemaDataAfter: the document is kept only when the pass
\* returned success.
SchemaDataAfterIfSynced(old, body, syncResult) ==
    IF syncResult = NotCalled \/ syncResult.success THEN body ELSE old

\* project.schemaData = { tables, relationships }
SchemaDataAfter(old, body, syncResult) == body

\* The response after the save.
SaveResponse(syncResult) ==
    [status |-> 200, success |-> TRUE,
     message |-> "Schema updated and synced to MySQL"]

\* project.save() and the response.
UpdateSave ==
    /\ req.at = "save"
    /\ \E out \in {"ok", "error"} :
          IF out = "ok"
          THEN LET schemaData ==
                      SchemaDataAfter(project.schemaData,
                                      [tables |-> tables,
                                       relationships |-> relationships],
                                      req.sync)
                    r == SaveResponse(req.sync)
               IN  /\ project' = [project EXCEPT !.schemaData = schemaData]
                   /\ Respond(r.status, r.success, r.message, schemaData)
          ELSE /\ UNCHANGED project
               /\ Respond(500, FALSE, "Server error while updating schema",
                          project.schemaData)
    /\ UNCHANGED <<op, tables, relationships, databaseName, pass, calls, arg, ret,
                   client, other, server, passVars>>

NextUpdate ==
    \/ UpdateReceive \/ UpdateFindProject \/ UpdateSyncReturned \/ UpdateSave
    \/ SyncConnect \/ SyncDisableChecks \/ SyncInventory
    \/ SyncPrune \/ SyncRecreate \/ SyncCreate
    \/ SyncWireSkip \/ SyncWireAlter \/ SyncLoopDone
    \/ SyncEnableChecks \/ SyncEnd

SpecUpdate == InitUpdate /\ [][NextUpdate]_vars

(***************************************************************************)
(* What the properties below read off the log.                             *)
(***************************************************************************)
PhaseRank(phase) ==
    CASE phase = "connect"   -> 1
      [] phase = "disable"   -> 2
      [] phase = "inventory" -> 3
      [] phase = "prune"     -> 4
      [] phase = "recreate"  -> 5
      [] phase = "create"    -> 5
      [] phase = "wire"      -> 6
      [] phase = "enable"    -> 7
      [] phase = "end"       -> 8
      [] OTHER               -> 0

StatementOf(phase) ==
    CASE phase = "connect"   -> "CONNECT"
      [] phase = "disable"   -> "SET FOREIGN_KEY_CHECKS"
      [] phase = "inventory" -> "SHOW TABLES"
      [] phase = "prune"     -> "DROP"
      [] phase = "recreate"  -> "DROP"
      [] phase = "create"    -> "CREATE"
      [] phase = "wire"      -> "ALTER"
      [] phase = "enable"    -> "SET FOREIGN_KEY_CHECKS"
      [] phase = "end"       -> "END"
      [] OTHER               -> ""

Entries(phases) == {j \in DOMAIN log : log[j].phase \in phases}
Failed(phases) == {j \in Entries(phases) : log[j].outcome # "ok"}
AllPhases == {"connect", "disable", "inventory", "prune", "recreate", "create",
              "wire", "enable", "end"}
TablePhases == {"prune", "recreate", "create"}

\* D: the sanitized table names of the document.
DocNames == {Sanitize(tables[k].name) : k \in DOMAIN tables}
\* L: the inventory.
Inventory == Range(existingTables)

\* The pass has left the prune loop, the relationship loop.
PruneOver ==
    \/ pc \in {"materialize", "create", "wire", "enable", "end"}
    \/ pc = "done" /\ \E j \in DOMAIN log : PhaseRank(log[j].phase) > 4
WireOver ==
    \/ pc \in {"enable", "end"}
    \/ pc = "done" /\ Entries({"enable"}) # {}

\* A relationship resolves inside the document: both tables and both columns.
Resolvable(rel) ==
    \E a, b \in DOMAIN tables :
       /\ tables[a].id = rel.sourceTableId
       /\ tables[b].id = rel.targetTableId
       /\ \E c \in DOMAIN tables[a].columns :
             tables[a].columns[c].id = rel.sourceColumnId
       /\ \E c \in DOMAIN tables[b].columns :
             tables[b].columns[c].id = rel.targetColumnId

(***************************************************************************)
(* C1.  The statements of a pass are issued in this order: connect,        *)
(* disable foreign-key checks, SHOW TABLES, the prune DROPs, then for each *)
(* document table in array order its optional DROP directly followed by    *)
(* its CREATE, then the FK ALTERs in relationship order, then re-enable,   *)
(* then disconnect.  No prune DROP follows a CREATE, and an ALTER is       *)
(* issued only when every document table has had its CREATE.               *)
(***************************************************************************)
C1_StatementOrder ==
    op = "sync" =>
    /\ \A j \in DOMAIN log :
          /\ log[j].phase \in AllPhases
          /\ log[j].stmt.op = StatementOf(log[j].phase)
          /\ log[j].phase = "disable" => log[j].stmt.value = 0
          /\ log[j].phase = "enable" => log[j].stmt.value = 1
          /\ log[j].phase = "recreate" =>
                /\ log[j].stmt.table = Sanitize(tables[log[j].idx].name)
                /\ log[j].outcome = "ok" => j < Len(log) \/ pc = "create"
          /\ log[j].phase = "create" =>
                log[j].stmt.table = Sanitize(tables[log[j].idx].name)
    /\ \A j, k \in DOMAIN log :
          j < k =>
          /\ PhaseRank(log[j].phase) <= PhaseRank(log[k].phase)
          /\ log[j].phase = log[k].phase =>
                /\ log[j].phase \in {"prune", "recreate", "create", "wire"}
                /\ log[j].idx < log[k].idx
          /\ k = j + 1 /\ log[j].phase = "recreate" =>
                log[k].phase = "create" /\ log[k].idx = log[j].idx
    \* every earlier phase has been gone through
    /\ \A k \in DOMAIN log :
          /\ PhaseRank(log[k].phase) >= 2 => Entries({"connect"}) # {}
          /\ PhaseRank(log[k].phase) >= 3 => Entries({"disable"}) # {}
          /\ PhaseRank(log[k].phase) >= 4 => Entries({"inventory"}) # {}
          /\ PhaseRank(log[k].phase) >= 8 => Entries({"enable"}) # {}
          \* the CREATEs come for the tables 1, 2, .. in turn
          /\ log[k].phase \in {"recreate", "create"} =>
                \A t \in 1..(log[k].idx - 1) :
                   \E j \in 1..(k - 1) :
                      log[j].phase = "create" /\ log[j].idx = t
          \* no ALTER, no re-enable before the last CREATE
          /\ PhaseRank(log[k].phase) >= 6 =>
                \A t \in DOMAIN tables :
                   \E j \in 1..(k - 1) :
                      log[j].phase = "create" /\ log[j].idx = t

\* A pass that returned success after a prune DROP, a recreating DROP, two
\* CREATEs and an ALTER.
C1_Witness ==
    /\ op = "sync" /\ pc = "done" /\ result.success
    /\ Entries({"prune"}) # {}
    /\ Entries({"recreate"}) # {}
    /\ Cardinality(Entries({"create"})) >= 2
    /\ Entries({"wire"}) # {}

(***************************************************************************)
(* C2.  The tables dropped in the prune phase are exactly L \ D, L the     *)
(* inventory and D the sanitized names of the document: never a table      *)
(* outside L \ D, and all of L \ D once the prune loop is over.  No DROP   *)
(* of the prune phase names a table of D.                                  *)
(***************************************************************************)
PruneDropped == {log[j].stmt.table : j \in Entries({"prune"}) \ Failed({"prune"})}

C2_PruneCorrect ==
    op = "sync" =>
    /\ \A j \in Entries({"prune"}) :
          log[j].stmt.table \in Inventory \ DocNames
    /\ PruneOver => PruneDropped = Inventory \ DocNames
    /\ PruneOver /\ pc # "done" /\ Entries({"recreate", "create"}) = {} =>
          DOMAIN dbTables = DOMAIN db0.tables \cap DocNames

\* The prune loop is over, it has dropped a table, and it has kept a live
\* table whose name the document has only after sanitizing (a$ for a_).
C2_Witness ==
    /\ op = "sync" /\ PruneOver
    /\ PruneDropped # {}
    /\ \E n \in Inventory \cap DocNames :
          \A k \in DOMAIN tables : tables[k].name # n

(***************************************************************************)
(* C3.  After a pass that returns success=true every table of the document *)
(* is live under its sanitized name with exactly the columns declared for  *)
(* it (the placeholder column for a table without columns), and no table   *)
(* outside the document's sanitized names is live; for every document,     *)
(* also one with two tables of the same sanitized name.                    *)
(***************************************************************************)
DeclaredColumns(t) ==
    IF t.columns = <<>>
    THEN << [name |-> PlaceholderName, type |-> INT] >>
    ELSE [k \in 1..Len(t.columns) |->
             [name |-> Sanitize(t.columns[k].name), type |-> t.columns[k].type]]

C3_MaterializeComplete ==
    op = "sync" /\ pc = "done" /\ result.success =>
    /\ \A k \in DOMAIN tables :
          /\ Sanitize(tables[k].name) \in DOMAIN dbTables
          /\ dbTables[Sanitize(tables[k].name)] = DeclaredColumns(tables[k])
    /\ DOMAIN dbTables \subseteq DocNames

(***************************************************************************)
(* C4.  In the relationship phase exactly one ALTER is attempted for every *)
(* relationship that resolves inside the document, none for one that does  *)
(* not; a relationship that does not resolve adds no line to details, and  *)
(* the relationships after it are still processed.                         *)
(***************************************************************************)
FkLines(d) == SelectSeq(d, LAMBDA l : l.kind \in {"Added FK", "FK failed"})

C4_RelationshipResolution ==
    op = "sync" =>
    /\ \A j \in Entries({"wire"}) : Resolvable(relationships[log[j].idx])
    /\ \A j, k \in Entries({"wire"}) : log[j].idx = log[k].idx => j = k
    /\ Len(FkLines(details)) = Cardinality(Entries({"wire"}))
    /\ WireOver =>
          \A r \in DOMAIN relationships :
             Resolvable(relationships[r]) =>
                \E j \in Entries({"wire"}) : log[j].idx = r

\* The relationship loop is over; it skipped a relationship that does not
\* resolve and attempted one after it.
C4_Witness ==
    /\ op = "sync" /\ WireOver
    /\ \E r \in DOMAIN relationships :
          /\ ~Resolvable(relationships[r])
          /\ \E j \in Entries({"wire"}) : log[j].idx > r

(***************************************************************************)
(* The lines that the statements of the log leave in details: one for a    *)
(* DROP or CREATE that succeeded, one for an ALTER whatever its outcome.   *)
(***************************************************************************)
LineOf(e) ==
    CASE e.phase = "prune"    -> DroppedLine(e.stmt.table)
      [] e.phase = "recreate" -> RecreatingLine(e.stmt.table)
      [] e.phase = "create"   -> CreatedLine(e.stmt.table, Len(tables[e.idx].columns))
      [] e.phase = "wire"     -> IF e.outcome = "ok" THEN AddedFkLine(e.stmt)
                                 ELSE FkFailedLine(e.stmt)

RECURSIVE LinesOf(_)
LinesOf(entries) ==
    IF entries = <<>> THEN <<>>
    ELSE LET e == Head(entries)
         IN  (IF \/ e.phase = "wire"
                 \/ e.phase \in TablePhases /\ e.outcome = "ok"
              THEN <<LineOf(e)>> ELSE <<>>) \o LinesOf(Tail(entries))

(***************************************************************************)
(* C5.  When a DROP or CREATE of the prune or materialize phase fails, the *)
(* pass issues no further statement, the tables created earlier in the     *)
(* pass remain live, and the result is success=false with details holding  *)
(* exactly the lines recorded before the failing statement.                *)
(***************************************************************************)
C5_TableFailureAborts ==
    op = "sync" =>
    \A j \in Failed(TablePhases) :
       /\ j = Len(log)
       /\ pc = "done"
       /\ ~result.success
       /\ result.details = LinesOf(SubSeq(log, 1, j - 1))
       /\ \A k \in 1..(j - 1) :
             log[k].phase = "create" /\ log[k].outcome = "ok" =>
                log[k].stmt.table \in DOMAIN dbTables

(***************************************************************************)
(* C6.  When an ALTER fails, the pass records one FK failed line for it,   *)
(* still attempts every later relationship, still re-enables the checks    *)
(* and disconnects, and (no other statement failing) returns success=true. *)
(***************************************************************************)
C6_FkFailureContinues ==
    op = "sync" =>
    /\ \A j \in Failed({"wire"}) :
          \* the line is there as soon as the statement has failed
          /\ \E k \in DOMAIN details :
                /\ details[k] = FkFailedLine(log[j].stmt)
                /\ Len(FkLines(SubSeq(details, 1, k))) =
                      Cardinality({m \in Entries({"wire"}) : m <= j})
          \* and the pass goes on
          /\ j = Len(log) => \/ pc = "wire" /\ i > log[j].idx
                             \/ pc = "enable"
    /\ pc = "done" /\ Failed({"wire"}) # {} /\ Failed(AllPhases \ {"wire"}) = {} =>
          /\ result.success
          /\ conn = "closed"
          /\ fkChecks
          /\ Len(log) >= 2
          /\ log[Len(log) - 1].phase = "enable"
          /\ log[Len(log)].phase = "end"
          /\ \A r \in DOMAIN relationships :
                Resolvable(relationships[r]) =>
                   \E m \in Entries({"wire"}) : log[m].idx = r
          /\ Len(SelectSeq(result.details, LAMBDA l : l.kind = "FK failed")) =
                Cardinality(Failed({"wire"}))

\* A pass returned success=true although its first ALTER failed; a later
\* ALTER succeeded.
C6_Witness ==
    /\ op = "sync" /\ pc = "done" /\ result.success
    /\ \E j \in Failed({"wire"}) :
          \E k \in Entries({"wire"}) : k > j /\ log[k].outcome = "ok"

(***************************************************************************)
(* C7.  If opening the connection fails, the pass issues no statement,     *)
(* changes nothing in the database, and returns success=false with no      *)
(* detail line.                                                            *)
(***************************************************************************)
C7_ConnectFailure ==
    op = "sync" /\ Failed({"connect"}) # {} =>
    /\ Len(log) = 1
    /\ pc = "done"
    /\ ~escaped
    /\ ~result.success
    /\ result.details = <<>>
    /\ dbTables = db0.tables
    /\ dbFks = db0.fks
    /\ conn = "none"

\* The connection of a pass over a non-empty document and a non-empty
\* database could not be opened.
C7_Witness ==
    /\ op = "sync" /\ Failed({"connect"}) # {}
    /\ tables # <<>>
    /\ DOMAIN dbTables # {}

(***************************************************************************)
(* C8.  Every exported operation returns a result for every failure of     *)
(* connect, query, ping or end: no exception escapes, and a failure of a   *)
(* statement (other than an ALTER of the relationship loop, which is       *)
(* recorded in details) yields success=false with a message.               *)
(***************************************************************************)
C8_NothingEscapes ==
    /\ ~escaped
    /\ pc = "done" =>
          /\ result # NoResult
          /\ Failed((AllPhases \cup {"ping", "checkExists", "endExists",
                                     "createDb", "showDbs", "query"})
                    \ {"wire"}) # {} =>
                /\ ~result.success
                /\ "message" \in DOMAIN result

\* A call returned after its connection.end() failed.
C8_Witness ==
    /\ pc = "done"
    /\ \E j \in DOMAIN log : log[j].stmt.op = "END" /\ log[j].outcome # "ok"

(***************************************************************************)
(* C9.  As claimed: details holds a line for every DROP, CREATE and ALTER  *)
(* the pass attempted, succeeded or failed, in the order of the attempts.  *)
(***************************************************************************)
Attempts == SelectSeq(log, LAMBDA e : e.phase \in TablePhases \cup {"wire"})

C9_EveryAttemptHasLine ==
    op = "sync" /\ pc = "done" =>
    /\ Len(result.details) = Len(Attempts)
    /\ \A k \in DOMAIN Attempts : result.details[k].table = Attempts[k].stmt.table

(***************************************************************************)
(* C9, amended.  details holds, in the order of the attempts, a line for   *)
(* every DROP and CREATE that succeeded and for every ALTER, succeeded or  *)
(* failed; a DROP or CREATE that failed has no line.  The pass returns     *)
(* these lines.                                                            *)
(***************************************************************************)
C9_LinesInOrder ==
    op = "sync" =>
    /\ details = LinesOf(log)
    /\ pc = "done" => result.details = details

\* A pass returned the lines of a prune DROP and of a CREATE, and none for
\* the CREATE that failed after them.
C9_Witness ==
    /\ op = "sync" /\ pc = "done"
    /\ Entries({"prune"}) # {}
    /\ Failed({"create"}) # {}
    /\ Len(result.details) >= 2
    /\ Len(result.details) < Len(Attempts)

(***************************************************************************)
(* C10.  Every connection opened by testMySQLConnection,                   *)
(* createMySQLDatabase or syncSchemaToMySQL is closed before the operation *)
(* returns, on every path.                                                 *)
(***************************************************************************)
C10_ConnectionClosed ==
    op \in {"test", "create", "sync"} /\ pc = "done" => conn # "open"


\* C11: every DROP TABLE, CREATE TABLE and ALTER TABLE of a pass is issued
\* while the session's foreign-key checks are disabled: the pass's
\* SET FOREIGN_KEY_CHECKS = 0 has succeeded before it, its
\* SET FOREIGN_KEY_CHECKS = 1 has not been issued yet, and the setting is
\* off before and after the statement.
C11_ChecksDisabled ==
    [][ (/\ Len(log') = Len(log) + 1
         /\ log'[Len(log')].stmt.op \in {"DROP", "CREATE", "ALTER"})
        => /\ fkChecks = FALSE
           /\ fkChecks' = FALSE
           /\ \E j \in DOMAIN log :
                 /\ log[j].stmt = [op |-> "SET FOREIGN_KEY_CHECKS", value |-> 0]
                 /\ log[j].outcome = "ok"
           /\ \A j \in DOMAIN log :
                 log[j].stmt # [op |-> "SET FOREIGN_KEY_CHECKS", value |-> 1] ]_vars

\* A pass that dropped in the prune loop, created a table and added a
\* foreign key, and is about to switch the checks on again.
C11_Witness ==
    /\ op = "sync"
    /\ pc = "enable"
    /\ fkChecks = FALSE
    /\ \E j \in Entries({"prune"}) : log[j].outcome = "ok"
    /\ \E j \in Entries({"create"}) : log[j].outcome = "ok"
    /\ \E j \in Entries({"wire"}) : log[j].outcome = "ok"


\* The sanitized names of the document's tables are pairwise distinct.
DistinctNames ==
    \A a, b \in DOMAIN tables :
       a # b => Sanitize(tables[a].name) # Sanitize(tables[b].name)

\* The pass has left the table loop.
MaterializeOver ==
    \/ pc \in {"wire", "enable", "end"}
    \/ pc = "done" /\ \E j \in DOMAIN log : PhaseRank(log[j].phase) > 5

\* The table lines a repeated pass owes: for each document table in turn
\* its 'Recreating table' line, then its 'Created table' line.
RecreationLines ==
    [j \in 1..(2 * Len(tables)) |->
        IF j % 2 = 1
        THEN [kind |-> "Recreating table",
              table |-> Sanitize(tables[(j + 1) \div 2].name)]
        ELSE [kind |-> "Created table",
              table |-> Sanitize(tables[j \div 2].name),
              columns |-> Len(tables[j \div 2].columns)]]

\* C12: a second pass with the same document (pairwise distinct sanitized
\* table names) on the database a first successful pass left drops and
\* recreates every document table; its details holds, for each document
\* table in turn, the 'Recreating table' line and then the 'Created table'
\* line, and never a 'Dropped table' line.
C12_ResyncRecreates ==
    (op = "sync" /\ pass = 2 /\ DistinctNames)
    => /\ \A k \in DOMAIN details : details[k].kind # "Dropped table"
       /\ Entries({"prune"}) = {}
       /\ LET n == Cardinality({k \in DOMAIN details :
                        details[k].kind \in {"Recreating table", "Created table"}})
          IN  /\ n <= 2 * Len(tables)
              /\ \A k \in 1..n : details[k] = RecreationLines[k]
              /\ MaterializeOver => n = 2 * Len(tables)
       /\ MaterializeOver =>
             \A k \in DOMAIN tables :
                \E a, b \in DOMAIN log :
                   /\ a < b
                   /\ log[a].stmt = [op |-> "DROP",
                                     table |-> Sanitize(tables[k].name)]
                   /\ log[a].outcome = "ok"
                   /\ log[b].stmt.op = "CREATE"
                   /\ log[b].stmt.table = Sanitize(tables[k].name)
                   /\ log[b].outcome = "ok"
                   /\ log[b].idx = k

\* A second pass of a document of two tables has returned success.
C12_Witness ==
    /\ op = "sync"
    /\ pass = 2
    /\ DistinctNames
    /\ Len(tables) = 2
    /\ pc = "done"
    /\ result.success
    /\ Len(result.details) >= 4


\* The table of the document with this id, the column of a table with this id.
TableOf(id) == tables[CHOOSE k \in DOMAIN tables : tables[k].id = id]
ColumnOf(t, id) == t.columns[CHOOSE k \in DOMAIN t.columns : t.columns[k].id = id]

\* The ALTER a resolvable relationship calls for.
ExpectedAlter(rel) ==
    LET src == Sanitize(TableOf(rel.sourceTableId).name)
        col == Sanitize(ColumnOf(TableOf(rel.sourceTableId), rel.sourceColumnId).name)
    IN  [op |-> "ALTER",
         table |-> src,
         constraint |-> <<"f","k","_">> \o src \o <<"_">> \o col,
         column |-> col,
         refTable |-> Sanitize(TableOf(rel.targetTableId).name),
         refColumn |-> Sanitize(ColumnOf(TableOf(rel.targetTableId),
                                         rel.targetColumnId).name),
         onDelete |-> IF rel.onDelete = "" THEN "CASCADE" ELSE rel.onDelete,
         onUpdate |-> IF rel.onUpdate = "" THEN "CASCADE" ELSE rel.onUpdate]

\* The call syncs the users/posts document against an empty database.
UsersPostsOnEmpty ==
    /\ op = "sync"
    /\ Range(tables) = {UsersTable, PostsTable}
    /\ relationships = <<PostsUserRel>>
    /\ db0.tables = EmptyDb

FkPostsUserId ==
    [name |-> <<"f","k","_","p","o","s","t","s","_","u","s","e","r","_","i","d">>,
     table |-> <<"p","o","s","t","s">>,
     column |-> <<"u","s","e","r","_","i","d">>,
     refTable |-> <<"u","s","e","r","s">>,
     refColumn |-> <<"i","d">>,
     onDelete |-> "CASCADE", onUpdate |-> "CASCADE"]

\* C13: the ALTER issued for a resolvable relationship targets the sanitized
\* source table, names the constraint fk_<source table>_<source column>,
\* references the sanitized target table and column, and carries the
\* relationship's onDelete and onUpdate, CASCADE where unspecified.  For the
\* users/posts document on an empty database, a pass whose statements all
\* succeeded leaves users and posts live with their declared columns and
\* the one constraint fk_posts_user_id with ON DELETE CASCADE, and details
\* has the two 'Created table' lines, the 'Added FK' line and no failure line.
C13_AlterStatement ==
    /\ op = "sync" =>
          \A j \in Entries({"wire"}) :
             log[j].stmt = ExpectedAlter(relationships[log[j].idx])
    /\ (UsersPostsOnEmpty /\ pc = "done" /\ Failed(AllPhases) = {}) =>
          /\ result.success
          /\ DOMAIN dbTables = {<<"u","s","e","r","s">>, <<"p","o","s","t","s">>}
          /\ \A k \in DOMAIN tables :
                dbTables[tables[k].name] =
                   [c \in 1..2 |-> [name |-> tables[k].columns[c].name,
                                    type |-> tables[k].columns[c].type]]
          /\ dbFks = {FkPostsUserId}
          /\ Len(result.details) = 3
          /\ \A k \in 1..2 :
                result.details[k] = [kind |-> "Created table",
                                     table |-> tables[k].name, columns |-> 2]
          /\ result.details[3].kind = "Added FK"
          /\ result.details[3].table = <<"p","o","s","t","s">>
          /\ \A k \in DOMAIN result.details : result.details[k].kind # "FK failed"

\* The users/posts document, posts first, was synced against an empty
\* database and every statement succeeded.
C13_Witness ==
    /\ UsersPostsOnEmpty
    /\ tables[1] = PostsTable
    /\ pc = "done"
    /\ result.success
    /\ Failed(AllPhases) = {}
    /\ dbFks = {FkPostsUserId}


\* The CREATE DATABASE statements of call c that succeeded; the call has
\* returned success.
Creates(c) ==
    {j \in DOMAIN calls[c].log :
        /\ calls[c].log[j].stmt.op = "CREATE DATABASE"
        /\ calls[c].log[j].outcome = "ok"}
Succeeded(c) == calls[c].pc = "done" /\ calls[c].result.success

\* C14: in every interleaving of createMySQLDatabase calls, a call returns
\* success only if the database of its sanitized name did not exist and the
\* call's own CREATE DATABASE made it, so no two calls for one sanitized
\* name both return success; a call whose sanitized name exists when the
\* call starts returns failure, and none of its CREATE DATABASE succeeds.
C14_CreateOnlyOnce ==
    /\ \A c \in Callers :
          /\ Succeeded(c) =>
                \E j \in Creates(c) :
                   /\ ~calls[c].log[j].existed
                   /\ calls[c].log[j].stmt.name = Sanitize(calls[c].name)
                   /\ Sanitize(calls[c].name) \notin db0.databases
          /\ \A j \in Creates(c) : ~calls[c].log[j].existed
          /\ (calls[c].log # <<>> /\ calls[c].log[1].existed) =>
                /\ Creates(c) = {}
                /\ calls[c].pc = "done" => ~calls[c].result.success
    /\ \A c, d \in Callers :
          (c # d /\ Sanitize(calls[c].name) = Sanitize(calls[d].name))
          => ~(Succeeded(c) /\ Succeeded(d))

\* Two calls for one sanitized name both found the database missing and
\* both issued CREATE DATABASE: one made it and returned success, the
\* other was refused and returned failure.
C14_Witness ==
    \E c, d \in Callers :
       /\ c # d
       /\ calls[c].name # calls[d].name
       /\ Sanitize(calls[c].name) = Sanitize(calls[d].name)
       /\ Succeeded(c)
       /\ calls[d].pc = "done"
       /\ ~calls[d].result.success
       /\ \E j \in DOMAIN calls[d].log :
             /\ calls[d].log[j].stmt.op = "CREATE DATABASE"
             /\ calls[d].log[j].outcome = "error"
             /\ calls[d].log[j].existed


\* The characters of [A-Za-z0-9_].
IdentifierChars ==
    {"A","B","C","D","E","F","G","H","I","J","K","L","M","N","O","P","Q","R",
     "S","T","U","V","W","X","Y","Z","a","b","c","d","e","f","g","h","i","j",
     "k","l","m","n","o","p","q","r","s","t","u","v","w","x","y","z","0","1",
     "2","3","4","5","6","7","8","9","_"}

\* C15: for every input the sanitizer returns: the result has the length of
\* the input, every character of it is in [A-Za-z0-9_], a character of the
\* input that is in that set is kept in its place and every other character
\* is replaced by '_'.
C15_SanitizerContract ==
    /\ ~ret.returned => ENABLED RunSanitize
    /\ ret.returned =>
          /\ Len(ret.value) = Len(arg)
          /\ \A k \in 1..Len(arg) :
                /\ ret.value[k] \in IdentifierChars
                /\ arg[k] \in IdentifierChars => ret.value[k] = arg[k]
                /\ arg[k] \notin IdentifierChars => ret.value[k] = "_"

\* The sanitizer returned for a text with two characters outside the class
\* and one inside it.
C15_Witness ==
    /\ ret.returned
    /\ Len(arg) = 3
    /\ Cardinality({k \in 1..3 : arg[k] \notin IdentifierChars}) = 2
    /\ Cardinality({k \in 1..3 : ret.value[k] = "_"}) = 2


\* A text the sanitizer returns: every character of it is in [A-Za-z0-9_]
\* (the sanitizer returns such a text unchanged).
IsSanitized(s) == \A k \in DOMAIN s : s[k] \in IdentifierChars

\* The identifiers a statement has between backticks.
Identifiers(stmt) ==
    CASE stmt.op = "DROP" -> {stmt.table}
      [] stmt.op = "CREATE" ->
            {stmt.table}
            \cup {stmt.columnDefs[k].name : k \in DOMAIN stmt.columnDefs}
            \cup {stmt.constraints[k].column : k \in DOMAIN stmt.constraints}
            \cup {stmt.constraints[k].name : k \in DOMAIN stmt.constraints}
      [] stmt.op = "ALTER" ->
            {stmt.table, stmt.constraint, stmt.column, stmt.refTable,
             stmt.refColumn}
      [] stmt.op = "CREATE DATABASE" -> {stmt.name}
      [] OTHER -> {}

\* C16: every identifier that syncSchemaToMySQL, generateCreateTableSQL or
\* createMySQLDatabase puts between backticks in a statement is a text the
\* sanitizer returns, the table names of the prune loop's DROP statements
\* included.
C16_IdentifiersSanitized ==
    \A j \in DOMAIN log :
       \A id \in Identifiers(log[j].stmt) : IsSanitized(id)


\* The columns of the generator's argument and the definition of column k
\* in the statement it returned.
GenCols == arg.columns
GenDef(k) == ret.value.columnDefs[k]
Generated == ret.returned /\ GenCols # <<>>

\* A value between single quotes, each single quote of it doubled.
RECURSIVE Quoted(_)
Quoted(s) ==
    IF s = <<>> THEN <<>>
    ELSE IF Head(s) = "'" THEN <<"'", "'">> \o Quoted(Tail(s))
    ELSE <<Head(s)>> \o Quoted(Tail(s))

Sentinels ==
    { <<"N","U","L","L">>,
      <<"C","U","R","R","E","N","T","_","T","I","M","E","S","T","A","M","P">>,
      <<"C","U","R","R","E","N","T","_","D","A","T","E">> }

\* C17, as claimed: where a DEFAULT clause is emitted, the values
\* NULL, CURRENT_TIMESTAMP and CURRENT_DATE give DEFAULT NULL,
\* DEFAULT CURRENT_TIMESTAMP and DEFAULT CURRENT_DATE, and every other
\* value is emitted between single quotes with its single quotes doubled.
C17_SentinelsAsKeywords ==
    Generated =>
       \A k \in DOMAIN GenCols :
          LET v == GenCols[k].defaultValue
              d == GenDef(k).default
          IN  d.kw # "" =>
                 /\ v = <<"N","U","L","L">> => d.kw = "NULL"
                 /\ v = <<"C","U","R","R","E","N","T","_","T","I","M","E","S","T","A","M","P">>
                       => d.kw = "CURRENT_TIMESTAMP"
                 /\ v = <<"C","U","R","R","E","N","T","_","D","A","T","E">>
                       => d.kw = "CURRENT_DATE"
                 /\ v \notin Sentinels => d.kw = "'" /\ d.text = Quoted(v)

\* C17, amended: where a DEFAULT clause is emitted, a value that, trimmed and in
\* upper case, is NULL, CURRENT_TIMESTAMP or CURRENT_DATE gives the unquoted
\* DEFAULT NULL, DEFAULT CURRENT_TIMESTAMP and DEFAULT (CURRENT_DATE), the
\* last in parentheses; every other value is emitted between single quotes
\* with each single quote of it doubled (O'Brien gives 'O''Brien').
C17_DefaultClauseText ==
    Generated =>
       \A k \in DOMAIN GenCols :
          LET v == GenCols[k].defaultValue
              u == Trim(ToUpperCase(v))
              d == GenDef(k).default
          IN  d.kw # "" =>
                 /\ u = <<"N","U","L","L">> => d.kw = "NULL"
                 /\ u = <<"C","U","R","R","E","N","T","_","T","I","M","E","S","T","A","M","P">>
                       => d.kw = "CURRENT_TIMESTAMP"
                 /\ u = <<"C","U","R","R","E","N","T","_","D","A","T","E">>
                       => d.kw = "(CURRENT_DATE)"
                 /\ u \notin Sentinels => d.kw = "'" /\ d.text = Quoted(v)
                 /\ v = OBrien => d.text = <<"O","'","'","B","r","i","e","n">>

\* A table of two columns was generated: one has the default O'Brien and
\* is quoted, the other has the default CURRENT_DATE.
C17_Witness ==
    /\ Generated
    /\ Len(GenCols) = 2
    /\ GenCols[1].defaultValue = OBrien
    /\ GenDef(1).default.kw = "'"
    /\ GenCols[2].defaultValue = <<"C","U","R","R","E","N","T","_","D","A","T","E">>
    /\ GenDef(2).default.kw # ""


\* C18, as claimed: a column gets a DEFAULT clause if and only if it has a
\* default value, the empty text included, and is not auto-increment.
C18_DefaultIffPresent ==
    Generated =>
       \A k \in DOMAIN GenCols :
          GenDef(k).default.kw # ""
          <=> (GenCols[k].hasDefault /\ ~GenCols[k].isAutoIncrement)

\* C18, amended: a column gets a DEFAULT clause if and only if it has a
\* default value that is not the empty text and its isAutoIncrement flag is
\* not set, whatever its type.
C18_DefaultIffNonEmpty ==
    Generated =>
       \A k \in DOMAIN GenCols :
          GenDef(k).default.kw # ""
          <=> (/\ GenCols[k].hasDefault
               /\ GenCols[k].defaultValue # <<>>
               /\ ~GenCols[k].isAutoIncrement)

\* A table of two columns was generated.  Both have the default x and the
\* auto-increment flag; the type of one holds INT, the type of the other
\* does not, and neither has a DEFAULT clause.
C18_Witness ==
    /\ Generated
    /\ Len(GenCols) = 2
    /\ \A k \in 1..2 :
          /\ GenCols[k].isAutoIncrement
          /\ GenCols[k].defaultValue = <<"x">>
          /\ GenDef(k).default.kw = ""
    /\ GenCols[1].type = VARCHAR10
    /\ GenCols[2].type = BIGINT


\* The type has the letters I, N, T in a row, in either case.
HoldsINT(type) ==
    \E p \in 1..(Len(type) - 2) :
       /\ type[p] \in {"I", "i"}
       /\ type[p + 1] \in {"N", "n"}
       /\ type[p + 2] \in {"T", "t"}

\* C19: generateCreateTableSQL returns for every table, and a column of
\* the statement has AUTO_INCREMENT if and only if its isAutoIncrement flag
\* is set and its type holds INT in either case: never for VARCHAR(10),
\* always for BIGINT with the flag set, never with the flag unset.
C19_AutoIncrementGate ==
    /\ ~ret.returned => ENABLED RunGenerate
    /\ Generated =>
          \A k \in DOMAIN GenCols :
             /\ GenDef(k).autoIncrement
                <=> (GenCols[k].isAutoIncrement /\ HoldsINT(GenCols[k].type))
             /\ GenCols[k].type = VARCHAR10 => ~GenDef(k).autoIncrement
             /\ (GenCols[k].type = BIGINT /\ GenCols[k].isAutoIncrement)
                   => GenDef(k).autoIncrement
             /\ ~GenCols[k].isAutoIncrement => ~GenDef(k).autoIncrement

\* A table of two columns with the flag set was generated: the VARCHAR(10)
\* column has no AUTO_INCREMENT, the BIGINT column has it.
C19_Witness ==
    /\ Generated
    /\ Len(GenCols) = 2
    /\ GenCols[1].type = VARCHAR10
    /\ GenCols[1].isAutoIncrement
    /\ ~GenDef(1).autoIncrement
    /\ GenCols[2].type = BIGINT
    /\ GenCols[2].isAutoIncrement
    /\ GenDef(2).autoIncrement


\* The PRIMARY KEY clauses of the statement returned, in order, and the
\* sanitized names of the columns marked primary key, in order.
PrimaryKeyClauses ==
    SelectSeq(ret.value.constraints, LAMBDA c : c.kind = "PRIMARY KEY")
PrimaryKeyColumns ==
    LET marked == SelectSeq(GenCols, LAMBDA c : c.isPrimaryKey)
    IN  [k \in 1..Len(marked) |-> Sanitize(marked[k].name)]

\* C20: the statement has, after its column definitions, one
\* PRIMARY KEY (col) clause for each column marked primary key, in column
\* order, and the target database accepts it as the table's primary key: a
\* CREATE TABLE may define at most one primary key, so the statement holds
\* at most one PRIMARY KEY clause.
C20_CompositePrimaryKey ==
    Generated =>
       /\ Len(ret.value.columnDefs) = Len(GenCols)
       /\ [k \in 1..Len(PrimaryKeyClauses) |-> PrimaryKeyClauses[k].column]
             = PrimaryKeyColumns
       /\ Len(PrimaryKeyClauses) <= 1


\* C21: for a table without columns generateCreateTableSQL returns a
\* CREATE TABLE IF NOT EXISTS statement with exactly one column, the
\* nullable integer column _placeholder, and no constraint; for a table
\* with columns the statement has one definition for each column, in the
\* document's column order, and no placeholder column.
C21_PlaceholderColumn ==
    ret.returned =>
       /\ ret.value.op = "CREATE"
       /\ ret.value.table = <<"t","_","1">>
       /\ arg.columns = <<>> =>
             /\ Len(ret.value.columnDefs) = 1
             /\ ret.value.columnDefs[1].name
                   = <<"_","p","l","a","c","e","h","o","l","d","e","r">>
             /\ ret.value.columnDefs[1].type = <<"I","N","T">>
             /\ ~ret.value.columnDefs[1].notNull
             /\ ~ret.value.columnDefs[1].autoIncrement
             /\ ~ret.value.columnDefs[1].unique
             /\ ret.value.columnDefs[1].default.kw = ""
             /\ ret.value.constraints = <<>>
       /\ arg.columns # <<>> =>
             /\ Len(ret.value.columnDefs) = Len(arg.columns)
             /\ \A k \in DOMAIN arg.columns :
                   /\ ret.value.columnDefs[k].name = <<"k", "_", DigitText[k]>>
                   /\ ret.value.columnDefs[k].type = arg.columns[k].type
                   /\ ret.value.columnDefs[k].notNull = ~arg.columns[k].isNullable

\* The statement for a table without columns was generated.
C21_Witness ==
    /\ ret.returned
    /\ arg.columns = <<>>
    /\ Len(ret.value.columnDefs) = 1
    /\ ret.value.constraints = <<>>


\* C22: when the pass of a schema-update request returned success=false,
\* the response of updateSchema is no success response and carries the
\* message of the pass.
C22_SyncFailureSurfaced ==
    \A k \in DOMAIN responses :
       (/\ responses[k].sync # NotCalled
        /\ ~responses[k].sync.success)
       => /\ ~responses[k].success
          /\ responses[k].status # 200
          /\ responses[k].message = responses[k].sync.message


\* The schemaData the store held before response k was sent.
StoredBefore(k) == IF k = 1 THEN NoSchemaData ELSE responses[k - 1].schemaData

\* C30: for requests served one after the other for a MySQL project, the
\* schemaData stored after a request that updateSchema answers with status
\* 200 is the tables and relationships the request submitted, whether its
\* pass returned success or failure; the document is written after the
\* pass has returned (while the pass runs the store holds what it held
\* before), and a request answered otherwise leaves the store as it was.
C30_StoredIsSubmitted ==
    project.databaseType = "mysql" =>
       /\ \A k \in DOMAIN responses :
             /\ responses[k].status = 200 =>
                   /\ responses[k].sync # NotCalled
                   /\ responses[k].schemaData = responses[k].body
             /\ responses[k].status # 200 =>
                   responses[k].schemaData = StoredBefore(k)
       /\ project.schemaData = StoredBefore(Len(responses) + 1)
       /\ req.at = "save" => req.sync # NotCalled

\* A request with a table was answered 200 although its pass had returned
\* failure, and the store holds what it submitted.
C30_Witness ==
    /\ project.databaseType = "mysql"
    /\ req.at = "idle"
    /\ Len(responses) = 2
    /\ responses[2].status = 200
    /\ ~responses[2].sync.success
    /\ responses[2].body.tables # <<>>
    /\ responses[2].body # responses[1].body
    /\ project.schemaData = responses[2].body


(***************************************************************************)
(* The workspace store of the browser: its mutations, each followed by     *)
(* debouncedSave, the timer, saveSchema and the page's fetchProject.       *)
(* Time passes in ticks; the timer's 1000 ms are Delay ticks.  A table's   *)
(* position and a column's type and flags play no part in what is checked  *)
(* here and are left out of the records.                                   *)
(***************************************************************************)
Delay == 2
MaxEdits == 5
MaxBurst == 2
MaxLoads == 1
StoreNames == {"a", "b"}

\* The backend's variables, which the browser's steps leave alone.
backend == <<op, tables, relationships, databaseName, pc, i, conn, fkChecks,
             existingTables, details, result, escaped, log, dbTables, dbFks,
             databases, db0, pass, calls, arg, ret, project, req, responses,
             other>>

Snapshot(s) == [projectId |-> s.projectId, tables |-> s.tables,
                relationships |-> s.relationships]
TableIds(s) == { s.tables[k].id : k \in DOMAIN s.tables }
ColumnIds(s, tableId) ==
    UNION { { s.tables[k].columns[c].id : c \in DOMAIN s.tables[k].columns } :
            k \in { n \in DOMAIN s.tables : s.tables[n].id = tableId } }
RelationshipIds(s) == { s.relationships[k].id : k \in DOMAIN s.relationships }

\* tables.map(table => table.id === tableId ? f(table) : table), with
\* mapped[k] the image f(tables[k]).
MapTable(ts, tableId, mapped) ==
    [k \in DOMAIN ts |-> IF ts[k].id = tableId THEN mapped[k] ELSE ts[k]]

\* debouncedSave: the pending timer is cleared and a new one is set.
debouncedSave(timeout) == [armed |-> TRUE, elapsed |-> 0]

\* What every mutation ends with: set(...), then debouncedSave.  The
\* history counts the mutation and notes the state it left.
Mutation(after) ==
    /\ hist.edits < hist.budget
    /\ store' = after
    /\ saveTimeout' = debouncedSave(saveTimeout)
    /\ hist' = [hist EXCEPT
                  !.edits = @ + 1,
                  !.made = IF store.projectId = NoProject THEN @
                           ELSE @ \cup {hist.edits + 1},
                  !.inState = IF store.projectId = NoProject THEN @
                              ELSE @ \cup {hist.edits + 1},
                  !.sinceMutation = 0,
                  !.afterMutation = Snapshot(after)]
    /\ UNCHANGED <<inFlight, stored, backend>>

addTable ==
    \E name \in StoreNames :
       /\ Mutation([store EXCEPT !.tables =
                       Append(@, [id |-> uuid + 1, name |-> name,
                                  columns |-> <<>>])])
       /\ uuid' = uuid + 1

updateTableName ==
    \E tableId \in TableIds(store), name \in StoreNames :
       LET Renamed(table) == [table EXCEPT !.name = name]
       IN  /\ Mutation([store EXCEPT !.tables = MapTable(@, tableId,
                              [k \in DOMAIN store.tables |-> Renamed(store.tables[k])])])
           /\ UNCHANGED uuid

updateTablePosition ==
    \E tableId \in TableIds(store) :
       /\ Mutation(store)
       /\ UNCHANGED uuid

\* A mutant of deleteTable: the relationships are left as they are.
deleteTableOnly(s, tableId) ==
    LET Other(table) == table.id # tableId
    IN  [s EXCEPT !.tables = SelectSeq(@, Other)]

deleteTable(s, tableId) ==
    LET Other(table) == table.id # tableId
        Apart(rel) == rel.sourceTableId # tableId /\ rel.targetTableId # tableId
    IN  [s EXCEPT !.tables = SelectSeq(@, Other),
                  !.relationships = SelectSeq(@, Apart)]

DeleteTable ==
    \E tableId \in TableIds(store) :
       /\ Mutation(deleteTable(store, tableId))
       /\ UNCHANGED uuid

addColumn ==
    \E tableId \in TableIds(store), name \in StoreNames :
       LET Added(table) ==
              [table EXCEPT !.columns = Append(@, [id |-> uuid + 1, name |-> name])]
       IN  /\ Mutation([store EXCEPT !.tables = MapTable(@, tableId,
                              [k \in DOMAIN store.tables |-> Added(store.tables[k])])])
           /\ uuid' = uuid + 1

updateColumn ==
    \E tableId \in TableIds(store) :
    \E columnId \in ColumnIds(store, tableId), name \in StoreNames :
       LET Updated(table) ==
              [table EXCEPT !.columns =
                  [c \in DOMAIN table.columns |->
                      IF table.columns[c].id = columnId
                      THEN [table.columns[c] EXCEPT !.name = name]
                      ELSE table.columns[c]]]
       IN  /\ Mutation([store EXCEPT !.tables = MapTable(@, tableId,
                              [k \in DOMAIN store.tables |-> Updated(store.tables[k])])])
           /\ UNCHANGED uuid

\* A mutant of deleteColumn: the relationships are left as they are.
deleteColumnOnly(s, tableId, columnId) ==
    LET OtherColumn(col) == col.id # columnId
        Without1(table) == [table EXCEPT !.columns = SelectSeq(@, OtherColumn)]
    IN  [s EXCEPT !.tables = MapTable(@, tableId,
                              [k \in DOMAIN s.tables |-> Without1(s.tables[k])])]

deleteColumn(s, tableId, columnId) ==
    LET OtherColumn(col) == col.id # columnId
        Without1(table) == [table EXCEPT !.columns = SelectSeq(@, OtherColumn)]
        Apart(rel) == rel.sourceColumnId # columnId /\ rel.targetColumnId # columnId
    IN  [s EXCEPT !.tables = MapTable(@, tableId,
                              [k \in DOMAIN s.tables |-> Without1(s.tables[k])]),
                  !.relationships = SelectSeq(@, Apart)]

DeleteColumn ==
    \E tableId \in TableIds(store) :
    \E columnId \in ColumnIds(store, tableId) :
       /\ Mutation(deleteColumn(store, tableId, columnId))
       /\ UNCHANGED uuid

\* The canvas connects two column handles of tables it shows; a
\* relationship with the same four ends as one the store holds is dropped
\* without a set and without debouncedSave.
addRelationship ==
    \E sourceTableId \in TableIds(store), targetTableId \in TableIds(store) :
    \E sourceColumnId \in ColumnIds(store, sourceTableId),
       targetColumnId \in ColumnIds(store, targetTableId) :
       LET exists ==
              \E k \in DOMAIN store.relationships :
                 /\ store.relationships[k].sourceTableId = sourceTableId
                 /\ store.relationships[k].sourceColumnId = sourceColumnId
                 /\ store.relationships[k].targetTableId = targetTableId
                 /\ store.relationships[k].targetColumnId = targetColumnId
       IN  /\ ~exists
           /\ Mutation([store EXCEPT !.relationships =
                           Append(@, [id |-> uuid + 1,
                                      sourceTableId |-> sourceTableId,
                                      sourceColumnId |-> sourceColumnId,
                                      targetTableId |-> targetTableId,
                                      targetColumnId |-> targetColumnId])])
           /\ uuid' = uuid + 1

deleteRelationship ==
    \E relationshipId \in RelationshipIds(store) :
       LET Other(rel) == rel.id # relationshipId
       IN  /\ Mutation([store EXCEPT !.relationships = SelectSeq(@, Other)])
           /\ UNCHANGED uuid

Mutations ==
    \/ addTable
    \/ updateTableName
    \/ updateTablePosition
    \/ DeleteTable
    \/ addColumn
    \/ updateColumn
    \/ DeleteColumn
    \/ addRelationship
    \/ deleteRelationship

\* Time passes while the timer waits.  A timer that is due may still wait
\* for its turn: a mutation that runs first clears it.
Tick ==
    /\ saveTimeout.armed
    /\ saveTimeout.elapsed < Delay
    /\ saveTimeout' = [saveTimeout EXCEPT !.elapsed = @ + 1]
    /\ hist' = [hist EXCEPT !.sinceMutation = @ + 1]
    /\ UNCHANGED <<store, inFlight, stored, uuid, backend>>

\* A mutant of saveSchema's guard: a call that finds isSaving set returns.
SendsUnlessSaving(s) == s.projectId # NoProject /\ ~s.isSaving

\* if (!projectId) return;
Sends(s) == s.projectId # NoProject

\* The timer fires and calls saveSchema, which reads the store as it is
\* now and runs up to its await of api.put.
saveSchema ==
    /\ saveTimeout.armed
    /\ saveTimeout.elapsed = Delay
    /\ saveTimeout' = NoTimeout
    /\ IF Sends(store)
       THEN /\ store' = [store EXCEPT !.isSaving = TRUE]
            /\ inFlight' = Append(inFlight, Snapshot(store))
       ELSE UNCHANGED <<store, inFlight>>
    /\ hist' = [hist EXCEPT
                  !.sent = IF Sends(store) THEN @ \cup hist.inState ELSE @,
                  !.saves = Append(@, [sends |-> Sends(store),
                                       state |-> Snapshot(store),
                                       edits |-> hist.edits,
                                       quiet |-> hist.sinceMutation,
                                       afterMutation |-> hist.afterMutation,
                                       others |-> Len(inFlight)])]
    /\ UNCHANGED <<stored, uuid, backend>>

\* api.put settles, in any order among the requests under way: answered,
\* the project's schemaData is the request's body; failed, the error is
\* logged.  Either way isSaving is cleared.
PutSettles ==
    \E k \in DOMAIN inFlight, out \in {"ok", "error"} :
       /\ inFlight' = [n \in 1..(Len(inFlight) - 1) |->
                          IF n < k THEN inFlight[n] ELSE inFlight[n + 1]]
       /\ stored' = IF out = "ok"
                    THEN [stored EXCEPT ![inFlight[k].projectId] =
                             [tables |-> inFlight[k].tables,
                              relationships |-> inFlight[k].relationships]]
                    ELSE stored
       /\ store' = [store EXCEPT !.isSaving = FALSE]
       /\ UNCHANGED <<saveTimeout, uuid, hist, backend>>

\* set({ projectId, ..., tables: [], relationships: [], ... })
setProject(s, projectId) ==
    [s EXCEPT !.projectId = projectId, !.tables = <<>>, !.relationships = <<>>]

\* The page of another project is opened and its effect runs: the project
\* is fetched, then setProject, setTables and setRelationships run one
\* after the other.  The timer is not touched.
fetchProject ==
    /\ hist.loads < MaxLoads
    /\ \E projectId \in Projects \ {store.projectId} :
          store' = [setProject(store, projectId) EXCEPT
                       !.tables = stored[projectId].tables,
                       !.relationships = stored[projectId].relationships]
    /\ hist' = [hist EXCEPT !.loads = @ + 1, !.inState = {}]
    /\ UNCHANGED <<saveTimeout, inFlight, stored, uuid, backend>>

\* The mutations alone, on a store that starts empty.
InitEdits ==
    /\ Quiet /\ ControllerIdle /\ arg = <<>> /\ ret = NotReturned
    /\ store = EmptyStore
    /\ saveTimeout = NoTimeout
    /\ inFlight = <<>>
    /\ stored = [p \in Projects |-> NoSchemaData]
    /\ uuid = 0
    /\ hist = [NoHistory EXCEPT !.budget = MaxEdits]
NextEdits == Mutations
SpecEdits == InitEdits /\ [][NextEdits]_vars

\* A page that has loaded project p1: a new project, or one saved with a
\* table, a column and a relationship of the column with itself.
SavedSchema ==
    [tables |-> << [id |-> 1, name |-> "a",
                    columns |-> << [id |-> 2, name |-> "a"] >>] >>,
     relationships |-> << [id |-> 3, sourceTableId |-> 1, sourceColumnId |-> 2,
                           targetTableId |-> 1, targetColumnId |-> 2] >>]
InitStore ==
    /\ Quiet /\ ControllerIdle /\ arg = <<>> /\ ret = NotReturned
    /\ \E schemaData \in {NoSchemaData, SavedSchema} :
          /\ stored = [p \in Projects |->
                          IF p = "p1" THEN schemaData ELSE NoSchemaData]
          /\ store = [projectId |-> "p1", tables |-> schemaData.tables,
                      relationships |-> schemaData.relationships,
                      isSaving |-> FALSE]
    /\ saveTimeout = NoTimeout
    /\ inFlight = <<>>
    /\ uuid = 3
    /\ hist = [NoHistory EXCEPT !.budget = MaxBurst]

\* The store in a page: mutations, time, saves and navigation.
NextStore ==
    \/ Mutations
    \/ Tick
    \/ saveSchema
    \/ PutSettles
    \/ fetchProject
SpecStore == InitStore /\ [][NextStore]_vars


(***************************************************************************)
(* The claims about the workspace store.                                   *)
(***************************************************************************)
\* A table of the store with this id that has a column with this id.
HasColumn(s, tableId, columnId) ==
    \E k \in DOMAIN s.tables :
       /\ s.tables[k].id = tableId
       /\ \E c \in DOMAIN s.tables[k].columns : s.tables[k].columns[c].id = columnId

EditsBefore(k) == IF k = 1 THEN 0 ELSE hist.saves[k - 1].edits

\* A saveSchema call starts only when Delay has passed since the most
\* recent mutation.
C23_QuietBeforeSave ==
    \A k \in DOMAIN hist.saves : hist.saves[k].quiet >= Delay

\* A burst of mutations gets one call: no call without a mutation since
\* the call before it, and the timer is set while a mutation waits for
\* its call.
C23_OneCallPerBurst ==
    /\ \A k \in DOMAIN hist.saves : hist.saves[k].edits > EditsBefore(k)
    /\ hist.edits > EditsBefore(Len(hist.saves) + 1) => saveTimeout.armed

\* The call sends the tables and relationships as the last mutation of
\* the burst left them.
C23_SendsLastMutation ==
    \A k \in DOMAIN hist.saves :
       /\ hist.saves[k].state.tables = hist.saves[k].afterMutation.tables
       /\ hist.saves[k].state.relationships =
             hist.saves[k].afterMutation.relationships

\* C23: schema mutations are debounced: a saveSchema call starts only when
\* 1 second has passed since the most recent mutation, a burst of
\* mutations results in exactly one saveSchema call, and that call sends
\* the tables and relationships as they are after the last mutation of the
\* burst.
C23_Debounced ==
    /\ C23_QuietBeforeSave
    /\ C23_OneCallPerBurst
    /\ C23_SendsLastMutation

\* C24: the debounce does not exclude overlapping saves: a saveSchema call
\* whose store has a project sends its request whatever isSaving says and
\* however many requests are under way.
C24_SaveNeverWaits ==
    \A k \in DOMAIN hist.saves :
       hist.saves[k].sends = (hist.saves[k].state.projectId # NoProject)

\* Two requests for the same project are in flight, the second sent by a
\* call that found the first under way.
C24_Witness ==
    /\ Len(inFlight) = 2
    /\ inFlight[1].projectId = inFlight[2].projectId
    /\ inFlight[1].tables # inFlight[2].tables
    /\ hist.saves[Len(hist.saves)].others = 1

\* C25: the last edit is not lost on navigation away: every mutation made
\* in a project is followed by a saveSchema call that sends a state with
\* that mutation to that project's id.  Stated for the states in which no
\* timer is set, where no call will follow unless another mutation is
\* made: every mutation made in a project has been sent to it.
C25_LastEditSaved ==
    ~saveTimeout.armed => hist.made \subseteq hist.sent


(***************************************************************************)
(* The constraint names of the relationship phase.                         *)
(***************************************************************************)
\* The resolvable relationships that leave the same sanitized table and
\* column as relationship r.
SameSource(r) ==
    { q \in DOMAIN relationships :
         /\ Resolvable(relationships[q])
         /\ AlterSQL(tables, relationships[q]).table =
               AlterSQL(tables, relationships[r]).table
         /\ AlterSQL(tables, relationships[q]).column =
               AlterSQL(tables, relationships[r]).column }
AddedOf(group) ==
    {j \in Entries({"wire"}) : log[j].idx \in group /\ log[j].outcome = "ok"}
FkFailedLinesOf(d, r) ==
    SelectSeq(d, LAMBDA l : l = FkFailedLine(AlterSQL(tables, relationships[r])))

\* C27: two resolvable relationships with the same sanitized source table
\* and source column get the same constraint name; in a pass that returns
\* success=true at most one of them is added, and each other one is
\* recorded as an FK failed line.
C27_ConstraintNameCollision ==
    op = "sync" =>
    \A r \in DOMAIN relationships :
       Resolvable(relationships[r]) /\ Cardinality(SameSource(r)) > 1 =>
          /\ \A q \in SameSource(r) :
                AlterSQL(tables, relationships[q]).constraint =
                   AlterSQL(tables, relationships[r]).constraint
          /\ Cardinality(AddedOf(SameSource(r))) <= 1
          /\ pc = "done" /\ result.success =>
                Len(FkFailedLinesOf(result.details, r)) =
                   Cardinality(SameSource(r)) - Cardinality(AddedOf(SameSource(r)))

\* A pass returned success=true with one of two relationships of one
\* column added and the other, attempted after it, recorded as failed.
C27_Witness ==
    /\ op = "sync" /\ pc = "done" /\ result.success
    /\ \E r \in DOMAIN relationships :
          /\ Resolvable(relationships[r])
          /\ Cardinality(SameSource(r)) = 2
          /\ Cardinality(AddedOf(SameSource(r))) = 1
          /\ Len(FkFailedLinesOf(result.details, r)) = 1
          /\ \E j \in AddedOf(SameSource(r)) :
                \E k \in Failed({"wire"}) : k > j /\ log[k].idx \in SameSource(r)


(***************************************************************************)
(* The structure a pass leaves, computed from the document.                *)
(***************************************************************************)
\* The tables of the document under their sanitized names, each with the
\* columns its CREATE TABLE declares.
ExpectedTables ==
    [n \in DocNames |->
        DeclaredColumns(tables[CHOOSE k \in DOMAIN tables :
                                  Sanitize(tables[k].name) = n])]

\* The relationships whose ALTER the driver reported as failed.
Broken == {log[j].idx : j \in Failed({"wire"})}

\* The foreign keys after the first n relationships, in order, on the
\* document's tables: a relationship adds its foreign key unless it does
\* not resolve, its ALTER failed, or the server refuses the statement.
RECURSIVE Wired(_, _)
Wired(n, broken) ==
    IF n = 0 THEN {}
    ELSE LET before == Wired(n - 1, broken)
             rel == relationships[n]
         IN  IF ~Resolvable(rel) \/ n \in broken
             THEN before
             ELSE IF AlterRefused(ExpectedTables, before, AlterSQL(tables, rel))
             THEN before
             ELSE ApplyAlter(before, AlterSQL(tables, rel))

\* C28, as claimed: for a document whose sanitized table names are pairwise
\* distinct, the tables, their columns and the foreign keys that are live
\* after a pass that returned success=true depend only on the document:
\* they are the document's tables and the foreign keys its relationships
\* give, whatever was live before the pass.
C28_DocumentOnly ==
    op = "sync" /\ pc = "done" /\ result.success /\ DistinctNames =>
    /\ dbTables = ExpectedTables
    /\ dbFks = Wired(Len(relationships), {})

\* C28, amended: the tables and their columns depend only on the document;
\* the foreign keys are those the document's relationships give, in order,
\* without those whose ALTER the driver reported as failed, whatever
\* tables and foreign keys were live before the pass; and an ALTER that
\* succeeded is one the document's own structure admits.
C28_StructureFromDocument ==
    op = "sync" /\ pc = "done" /\ result.success /\ DistinctNames =>
    /\ dbTables = ExpectedTables
    /\ dbFks = Wired(Len(relationships), Broken)
    /\ \A r \in DOMAIN relationships :
          Resolvable(relationships[r]) /\ r \notin Broken =>
             ~AlterRefused(ExpectedTables, Wired(r - 1, Broken),
                           AlterSQL(tables, relationships[r]))

\* A pass on a database that had a table outside the document, with a
\* foreign key, and a table of the document returned success=true and
\* added a foreign key of its own.
C28_Witness ==
    /\ op = "sync" /\ pc = "done" /\ result.success /\ DistinctNames
    /\ db0.fks # {}
    /\ DOMAIN db0.tables \cap DocNames # {}
    /\ DOMAIN db0.tables \ DocNames # {}
    /\ db0.tables # dbTables
    /\ dbFks # {}


(***************************************************************************)
(* Two passes of syncSchemaToMySQL on one database.  Each pass has its own *)
(* connection, document, inventory and details; between two statements a   *)
(* pass waits at an await, and the other pass may run its next statement.  *)
(* The pass that runs is held in the variables of a call, the pass that    *)
(* waits in the variable other.                                            *)
(***************************************************************************)
\* The documents of the two requests.
PassBodies == {b \in UpdateBodies : b.isArray /\ b.tables # <<>>}

\* A pass that has been called and has not yet opened its connection.
NewPass(body) ==
    [tables |-> body.tables, relationships |-> body.relationships,
     pc |-> "connect", i |-> 1, conn |-> "none", fkChecks |-> TRUE,
     existingTables |-> <<>>, details |-> <<>>, result |-> NoResult,
     escaped |-> FALSE, log |-> <<>>]

\* The pass that waits is resumed and the pass that ran waits.  A pass
\* that has returned is not resumed.
Resume ==
    /\ op = "sync"
    /\ other.pc \notin {"none", "done"}
    /\ tables' = other.tables
    /\ relationships' = other.relationships
    /\ pc' = other.pc
    /\ i' = other.i
    /\ conn' = other.conn
    /\ fkChecks' = other.fkChecks
    /\ existingTables' = other.existingTables
    /\ details' = other.details
    /\ result' = other.result
    /\ escaped' = other.escaped
    /\ log' = other.log
    /\ other' = [tables |-> tables, relationships |-> relationships,
                 pc |-> pc, i |-> i, conn |-> conn, fkChecks |-> fkChecks,
                 existingTables |-> existingTables, details |-> details,
                 result |-> result, escaped |-> escaped, log |-> log]
    /\ UNCHANGED <<op, databaseName, db0, pass, calls, arg, ret, project, req,
                   responses, client, server>>

\* Two requests for one project, whose database is empty or has the table
\* of one of the documents.
InitPasses ==
    /\ op = "sync"
    /\ \E body \in PassBodies :
          /\ tables = body.tables
          /\ relationships = body.relationships
    /\ pc = "connect"
    /\ i = 1
    /\ conn = "none"
    /\ fkChecks = TRUE
    /\ existingTables = <<>>
    /\ details = <<>>
    /\ result = NoResult
    /\ escaped = FALSE
    /\ log = <<>>
    /\ other \in { NewPass(body) : body \in PassBodies }
    /\ dbTables \in { EmptyDb, [n \in { <<"b">> } |-> OldColumns] }
    /\ dbFks = {}
    /\ databaseName = Db
    /\ databases = {Db}
    /\ db0 = [tables |-> dbTables, fks |-> dbFks]
    /\ pass = 1
    /\ calls = <<>>
    /\ arg = <<>>
    /\ ret = NotReturned
    /\ project = [databaseType |-> "mysql", schemaData |-> NoSchemaData]
    /\ req = [at |-> "idle", served |-> 0, sync |-> NotCalled]
    /\ responses = <<>>
    /\ ClientIdle

NextPasses ==
    \/ SyncConnect \/ SyncDisableChecks \/ SyncInventory
    \/ SyncPrune \/ SyncRecreate \/ SyncCreate
    \/ SyncWireSkip \/ SyncWireAlter \/ SyncLoopDone
    \/ SyncEnableChecks \/ SyncEnd
    \/ Resume
SpecPasses == InitPasses /\ [][NextPasses]_vars


\* The sanitized table names of the document of the pass that waits.
OtherNames == {Sanitize(other.tables[k].name) : k \in DOMAIN other.tables}

\* Both passes have returned success=true.  The pass held in other
\* returned first: a pass that has returned is not resumed.
BothReturned ==
    /\ op = "sync" /\ pc = "done" /\ result.success
    /\ other.pc = "done" /\ other.result.success

\* C29: the reconciler provides no isolation between passes.  An inventory
\* lists only tables that were live before the passes or that one of them
\* created, and a pass drops nothing else; so when both passes have
\* returned success=true, every table of the document of the pass that
\* returned first which the pass that returned last did not have in its
\* inventory is still live, in the last pass's document or not.
C29_NoIsolation ==
    op = "sync" =>
    /\ Range(existingTables) \subseteq
          DOMAIN db0.tables \cup DocNames \cup OtherNames
    /\ BothReturned =>
          \A n \in OtherNames : n \notin Range(existingTables) => n \in DOMAIN dbTables

\* Both passes took their inventory before the other's creates, both have
\* returned success=true, and a table that is not in the document of the
\* pass that returned last is live.
C29_Witness ==
    /\ BothReturned
    /\ OtherNames \cap Range(existingTables) = {}
    /\ DocNames \cap Range(other.existingTables) = {}
    /\ \E n \in DOMAIN dbTables : n \notin DocNames /\ n \in OtherNames

=============================================================================
